---- MODULE Spec2Model ----
(***************************************************************************)
(* Model of the price-synchronisation core of auto-parts-sync:             *)
(*   - LoadingProgress (the batch sync orchestrator, startProcess and the  *)
(*     two step bodies loadSupplierData / uploadToMarketplace),            *)
(*   - its two hosts, ControlPanel and SandboxPage (quota guard),          *)
(*   - the pure pricing helper calculateNewPrice of PriceUpdateModal.      *)
(*                                                                         *)
(* JavaScript runs one task at a time: an action of this model is one      *)
(* synchronous segment of code, from one `await` (or event) to the next.   *)
(* Strings shown to the user are written here in English.                  *)
(***************************************************************************)
EXTENDS Integers, Sequences, FiniteSets, Bags, TLC

VARIABLES
    page,                 \* which host page is mounted
    runs,                 \* every startProcess invocation made so far
    products,             \* rows of the `products` table written by runs (a bag)
    toast,                \* title of the last toast shown
    showProgress,         \* host state: the LoadingProgress view is shown
    selectedSuppliers,    \* ControlPanel state
    selectedMarketplaces, \* ControlPanel state
    auto_mode_enabled,    \* ControlPanel state (automationSettings)
    progressType,         \* ControlPanel state
    showPriceUpdateModal, \* ControlPanel state
    testing,              \* SandboxPage state
    testType,             \* SandboxPage state
    testRequests,         \* SandboxPage state: [used, max]
    marketplaces,         \* SandboxPage state: rows fetched by fetchMarketplaces
    selectedMarketplace,  \* SandboxPage state ("" = nothing selected)
    fetchPending,         \* SandboxPage: fetchMarketplaces is still in flight
    price,                \* PriceUpdateModal: last calculateNewPrice call and its result
    modal,                \* PriceUpdateModal: the products table it reads and its state
    kaspi                 \* KaspiApiClient and the pages calling it

orchVars == <<runs, products>>
cpVars == <<selectedSuppliers, selectedMarketplaces, auto_mode_enabled,
            progressType, showPriceUpdateModal>>
sbVars == <<testing, testType, testRequests, marketplaces, selectedMarketplace,
            fetchPending>>
vars == <<page, runs, products, toast, showProgress, selectedSuppliers,
          selectedMarketplaces, auto_mode_enabled, progressType,
          showPriceUpdateModal, testing, testType, testRequests, marketplaces,
          selectedMarketplace, fetchPending, price, modal, kaspi>>

(***************************************************************************)
(* Bounds and universes                                                    *)
(***************************************************************************)
\* Most startProcess calls made in one behaviour, on ControlPanel and on
\* SandboxPage (whose runs are one step long; one more than its quota lets a
\* request beyond the quota be tried).
MaxRuns == 1
MaxTestRuns == 2

\* Number of sample rows a download step works through in this model.
MaxItems == 2

\* max of the sandbox's testRequests in this model (100 in the source).
MaxTestRequests == 1

\* Active suppliers / marketplaces returned by fetchData, in list order.
Suppliers == << [id |-> "S1", name |-> "Supplier 1"],
                [id |-> "S2", name |-> "Supplier 2"] >>
Marketplaces == << [id |-> "M1", name |-> "Marketplace 1"],
                   [id |-> "M2", name |-> "Marketplace 2"] >>

\* The entities SandboxPage passes to LoadingProgress.
TestSupplier == [id |-> "test-supplier", name |-> "Test Supplier"]
TestMarketplace == [id |-> "test-marketplace", name |-> "Test Marketplace"]

\* Error texts the store may answer an insert with: the empty text, the least
\* a failure can carry.
DbMessages == {""}

(***************************************************************************)
(* Helpers                                                                 *)
(***************************************************************************)
RECURSIVE GCD(_, _)
GCD(a, b) == IF b = 0 THEN a ELSE GCD(b, a % b)

\* (n / d) * 100 as a reduced fraction <<numerator, denominator>>.
Percent(n, d) ==
    LET g == GCD(n * 100, d)
    IN  <<(n * 100) \div g, d \div g>>

Ids(s) == {s[x].id : x \in 1..Len(s)}

\* list.filter(e => selected.includes(e.id))
FilterSelected(list, selected) == SelectSeq(list, LAMBDA e : e.id \in selected)

(***************************************************************************)
(* LoadingProgress: the orchestrator                                       *)
(*                                                                         *)
(* runs[k] is the k-th call of startProcess. A call made by the first      *)
(* effect of a LoadingProgress instance also holds that instance's state   *)
(* (steps, overallProgress, isCompleted, mounted); a call made by a later  *)
(* run of the effect on the same instance points to it with inst. The      *)
(* setters of a call act on the state of runs[inst]. React drops a setter  *)
(* called after the unmount; the record keeps what the call reported.      *)
(***************************************************************************)
\* The rows loadSupplierData stores for every supplier.
sampleProducts ==
    << [article |-> "ART001", name |-> "Item 1", price |-> 1000],
       [article |-> "ART002", name |-> "Item 2", price |-> 1500],
       [article |-> "ART003", name |-> "Item 3", price |-> 2000],
       [article |-> "ART004", name |-> "Item 4", price |-> 2500],
       [article |-> "ART005", name |-> "Item 5", price |-> 3000] >>

items == SubSeq(sampleProducts, 1, MaxItems)

Terminal == {"completed", "error"}

\* initialSteps built back to front.
initialSteps_reversed(type, suppliers, mkts) ==
    LET targets == IF type = "download" THEN suppliers ELSE mkts
    IN  [x \in 1..Len(targets) |->
            [id |-> targets[Len(targets) + 1 - x], status |-> "pending",
             progress |-> <<0, 1>>, error |-> <<>>]]

\* useEffect: one pending step per target entity, in the order given.
initialSteps(type, suppliers, mkts) ==
    LET targets == IF type = "download" THEN suppliers ELSE mkts
    IN  [x \in 1..Len(targets) |->
            [id |-> targets[x], status |-> "pending", progress |-> <<0, 1>>,
             error |-> <<>>]]

\* A startProcess call about to start, and the state of a fresh instance.
\* i and j are the loop counters of the source (from 0); pc names the await
\* the call is suspended at; n is initialSteps.length. Two fields record
\* history: thrown, the indices i whose step body threw, and cancelledAt, the
\* index i the call was at when its view was cancelled (-1: not cancelled).
NewRun(type, suppliers, mkts, inst) ==
    [type |-> type,
     inst |-> inst,
     n |-> Len(initialSteps(type, suppliers, mkts)),
     i |-> 0, j |-> 0, pc |-> "start",
     completeCalls |-> 0, thrown |-> {}, cancelledAt |-> 0 - 1,
     steps |-> initialSteps(type, suppliers, mkts),
     overallProgress |-> <<0, 1>>,
     isCompleted |-> FALSE,
     mounted |-> TRUE]

\* The value the catch block of startProcess stores as the step's error.
catchMessage(thrown) ==
    IF thrown.isError THEN thrown.message ELSE "An error occurred"

\* insertError throwing a value that is not an Error.
insertError_notError(product, dbMessage) ==
    [isError |-> FALSE, message |-> dbMessage]

\* The Error loadSupplierData throws when the store rejects a row.
insertError(product, dbMessage) ==
    [isError |-> TRUE,
     message |-> "Failed to add item " \o product.name \o ": " \o dbMessage]

\* loopHead with every remaining step started at once instead of one by one.
loopHead_startAll(rs, k) ==
    LET c == rs[k].inst
    IN  IF rs[k].i < rs[k].n
        THEN [rs EXCEPT ![c].steps = [x \in DOMAIN @ |->
                                         IF x > rs[k].i
                                         THEN [@[x] EXCEPT !.status = "processing"]
                                         ELSE @[x]],
                        ![k].j = 0, ![k].pc = "timer"]
        ELSE [rs EXCEPT ![c].isCompleted = TRUE,
                        ![k].pc = "done",
                        ![k].completeCalls = @ + 1]

\* loopHead with onComplete called on every round of the loop.
loopHead_completeEachRound(rs, k) ==
    LET c == rs[k].inst
    IN  IF rs[k].i < rs[k].n
        THEN [rs EXCEPT ![c].steps[rs[k].i + 1].status = "processing",
                        ![k].j = 0, ![k].pc = "timer",
                        ![k].completeCalls = @ + 1]
        ELSE [rs EXCEPT ![c].isCompleted = TRUE,
                        ![k].pc = "done",
                        ![k].completeCalls = @ + 1]

\* loopHead that reports full progress when it leaves the loop.
loopHead_progressAtEnd(rs, k) ==
    LET c == rs[k].inst
    IN  IF rs[k].i < rs[k].n
        THEN [rs EXCEPT ![c].steps[rs[k].i + 1].status = "processing",
                        ![k].j = 0, ![k].pc = "timer"]
        ELSE [rs EXCEPT ![c].isCompleted = TRUE,
                        ![c].overallProgress = <<100, 1>>,
                        ![k].pc = "done",
                        ![k].completeCalls = @ + 1]

\* startProcess of call k, head of the for loop at index i: mark the step
\* processing and enter its body up to the first await, or leave the loop, set
\* isCompleted and call onComplete.
loopHead(rs, k) ==
    LET c == rs[k].inst
    IN  IF rs[k].i < rs[k].n
        THEN [rs EXCEPT ![c].steps[rs[k].i + 1].status = "processing",
                        ![k].j = 0, ![k].pc = "timer"]
        ELSE [rs EXCEPT ![c].isCompleted = TRUE,
                        ![k].pc = "done",
                        ![k].completeCalls = @ + 1]

\* afterStep without the try/catch: a throw ends the call where it stands.
afterStep_noCatch(rs, k, thrown) ==
    LET c == rs[k].inst
        x == rs[k].i + 1
    IN  IF thrown # <<>>
        THEN [rs EXCEPT ![k].pc = "failed"]
        ELSE loopHead([rs EXCEPT
                         ![c].steps[x].status = "completed",
                         ![c].steps[x].progress = <<100, 1>>,
                         ![c].overallProgress = Percent(rs[k].i + 1, rs[k].n),
                         ![k].i = rs[k].i + 1], k)

\* afterStep with the overall progress updated inside the try block, that is
\* only after a step that did not throw.
afterStep_progressInTry(rs, k, thrown) ==
    LET c == rs[k].inst
        x == rs[k].i + 1
    IN  IF thrown # <<>>
        THEN loopHead([rs EXCEPT
                         ![c].steps[x].status = "error",
                         ![c].steps[x].progress = <<100, 1>>,
                         ![c].steps[x].error = <<catchMessage(thrown[1])>>,
                         ![k].i = rs[k].i + 1], k)
        ELSE loopHead([rs EXCEPT
                         ![c].steps[x].status = "completed",
                         ![c].steps[x].progress = <<100, 1>>,
                         ![c].overallProgress = Percent(rs[k].i + 1, rs[k].n),
                         ![k].i = rs[k].i + 1], k)

\* afterStep that runs a step again when its body threw.
afterStep_retry(rs, k, thrown) ==
    LET c == rs[k].inst
        x == rs[k].i + 1
    IN  IF thrown # <<>>
        THEN loopHead([rs EXCEPT ![c].steps[x].progress = <<0, 1>>], k)
        ELSE loopHead([rs EXCEPT
                         ![c].steps[x].status = "completed",
                         ![c].steps[x].progress = <<100, 1>>,
                         ![c].overallProgress = Percent(rs[k].i + 1, rs[k].n),
                         ![k].i = rs[k].i + 1], k)

\* startProcess of call k after the awaited step body returned (thrown = <<>>)
\* or threw (thrown = <<e>>): record the step's outcome, update the overall
\* progress and go round the loop.
afterStep(rs, k, thrown) ==
    LET c == rs[k].inst
        x == rs[k].i + 1
        settled ==
            IF thrown = <<>>
            THEN [rs EXCEPT ![c].steps[x].status = "completed",
                            ![c].steps[x].progress = <<100, 1>>]
            ELSE [rs EXCEPT ![c].steps[x].status = "error",
                            ![c].steps[x].progress = <<100, 1>>,
                            ![c].steps[x].error = <<catchMessage(thrown[1])>>]
    IN  loopHead([settled EXCEPT
                    ![c].overallProgress = Percent(rs[k].i + 1, rs[k].n),
                    ![k].i = rs[k].i + 1], k)

\* The row loadSupplierData inserts for a product of a supplier.
productRow(supplierId, product) ==
    [supplier_id |-> supplierId, supplier_article |-> product.article,
     name_supplier |-> product.name, current_price |-> product.price,
     pricing_action |-> "multiply", pricing_value |-> 1]

\* The host hides the progress view: the LoadingProgress instance unmounts.
\* Its startProcess calls are not told and keep running.
Unmount(rs) == [x \in DOMAIN rs |-> [rs[x] EXCEPT !.mounted = FALSE]]

\* onComplete that never opens the review.
onComplete_noReview(type) ==
    /\ showProgress' = FALSE
    /\ toast' = (IF page = "ControlPanel" THEN "Operation finished" ELSE "Test finished")
    /\ testing' = (IF page = "ControlPanel" THEN testing ELSE FALSE)
    /\ showPriceUpdateModal' = showPriceUpdateModal

\* The host's onComplete callback, as captured by the call when its effect
\* ran. ControlPanel: hide the view, toast, and open the review modal after a
\* download in manual mode. SandboxPage: hide the view, clear testing, toast.
onComplete(type) ==
    /\ showProgress' = FALSE
    /\ IF page = "ControlPanel"
       THEN /\ toast' = "Operation finished"
            /\ showPriceUpdateModal' =
                   IF type = "download" /\ ~auto_mode_enabled
                   THEN TRUE ELSE showPriceUpdateModal
            /\ testing' = testing
       ELSE /\ toast' = "Test finished"
            /\ testing' = FALSE
            /\ showPriceUpdateModal' = showPriceUpdateModal

\* Call k resumed and ran to its next await, leaving the records as rs. When
\* it left the loop it has called onComplete, and whatever instance the host
\* was showing is unmounted with the view.
Resume(k, rs) ==
    IF rs[k].pc = "done"
    THEN /\ runs' = Unmount(rs)
         /\ onComplete(rs[k].type)
    ELSE /\ runs' = rs
         /\ UNCHANGED <<showProgress, toast, showPriceUpdateModal, testing>>

\* A new startProcess call fits the model's bound.
CanMount ==
    Len(runs) < (IF page = "SandboxPage" THEN MaxTestRuns ELSE MaxRuns)

\* useEffect of a newly rendered LoadingProgress: build the steps and call
\* startProcess, which runs to its first await.
Mount(type, suppliers, mkts) ==
    LET k == Len(runs) + 1
    IN  runs' = loopHead(Append(runs, NewRun(type, suppliers, mkts, k)), k)

\* loadSupplierData, after the 400 ms timer of item j: publish the progress
\* and send the insert.
DownloadTimer(k) ==
    /\ runs[k].type = "download"
    /\ runs[k].pc = "timer"
    /\ runs' = [runs EXCEPT
                  ![runs[k].inst].steps[runs[k].i + 1].progress =
                      Percent(runs[k].j + 1, Len(items)),
                  ![k].pc = "insert"]
    /\ UNCHANGED <<page, products, toast, showProgress, cpVars, sbVars, price, modal, kaspi>>

\* loadSupplierData, the insert of item j was stored: next item, or the step
\* body returns.
InsertStored(k) ==
    LET run == runs[k]
        supplierId == runs[run.inst].steps[run.i + 1].id
        next == [runs EXCEPT ![k].j = run.j + 1]
    IN  /\ run.type = "download"
        /\ run.pc = "insert"
        /\ products' = products (+) SetToBag({productRow(supplierId, items[run.j + 1])})
        /\ IF run.j + 1 < Len(items)
           THEN Resume(k, [next EXCEPT ![k].pc = "timer"])
           ELSE Resume(k, afterStep(next, k, <<>>))
        /\ UNCHANGED <<page, selectedSuppliers, selectedMarketplaces,
                       auto_mode_enabled, progressType, testType, testRequests,
                       marketplaces, selectedMarketplace, fetchPending, price, modal, kaspi>>

\* loadSupplierData, the insert of item j came back with an error: the body
\* throws and startProcess catches.
InsertFailed(k) ==
    LET run == runs[k]
    IN  /\ run.type = "download"
        /\ run.pc = "insert"
        /\ \E m \in DbMessages :
              Resume(k, afterStep([runs EXCEPT ![k].thrown = @ \cup {run.i}], k,
                                  <<insertError(items[run.j + 1], m)>>))
        /\ UNCHANGED <<page, products, selectedSuppliers, selectedMarketplaces,
                       auto_mode_enabled, progressType, testType, testRequests,
                       marketplaces, selectedMarketplace, fetchPending, price, modal, kaspi>>

\* Largest progress value and increment of the loop of uploadToMarketplace.
UploadLast == 100
UploadStride == 20

\* uploadToMarketplace, after a 300 ms timer: publish progress j; next tick, or
\* the step body returns.
UploadTick(k) ==
    LET run == runs[k]
        shown == [runs EXCEPT
                    ![run.inst].steps[run.i + 1].progress = Percent(run.j, 100),
                    ![k].j = run.j + UploadStride]
    IN  /\ run.type # "download"
        /\ run.pc = "timer"
        /\ IF shown[k].j <= UploadLast
           THEN Resume(k, shown)
           ELSE Resume(k, afterStep(shown, k, <<>>))
        /\ UNCHANGED <<page, products, selectedSuppliers, selectedMarketplaces,
                       auto_mode_enabled, progressType, testType, testRequests,
                       marketplaces, selectedMarketplace, fetchPending, price, modal, kaspi>>

\* onCancel giving the cancelled run's request back to the quota.
onCancel_refund ==
    /\ showProgress
    /\ \E k \in DOMAIN runs : runs[k].mounted /\ ~runs[k].isCompleted
    /\ showProgress' = FALSE
    /\ testing' = (IF page = "SandboxPage" THEN FALSE ELSE testing)
    /\ testRequests' = [testRequests EXCEPT !.used = IF @ > 0 THEN @ - 1 ELSE 0]
    /\ runs' = [k \in DOMAIN runs |->
                  IF runs[runs[k].inst].mounted
                  THEN [runs[k] EXCEPT !.mounted = FALSE,
                                       !.cancelledAt = runs[k].i]
                  ELSE runs[k]]
    /\ UNCHANGED <<page, products, toast, cpVars, testType,
                   marketplaces, selectedMarketplace, fetchPending, price, modal, kaspi>>

\* The cancel button of LoadingProgress (shown while ~isCompleted) calls the
\* host's onCancel: the view is hidden.
onCancel ==
    /\ showProgress
    /\ \E k \in DOMAIN runs : runs[k].mounted /\ ~runs[k].isCompleted
    /\ showProgress' = FALSE
    /\ testing' = (IF page = "SandboxPage" THEN FALSE ELSE testing)
    /\ runs' = [k \in DOMAIN runs |->
                  IF runs[runs[k].inst].mounted
                  THEN [runs[k] EXCEPT !.mounted = FALSE,
                                       !.cancelledAt = runs[k].i]
                  ELSE runs[k]]
    /\ UNCHANGED <<page, products, toast, cpVars, testType, testRequests,
                   marketplaces, selectedMarketplace, fetchPending, price, modal, kaspi>>

(***************************************************************************)
(* ControlPanel                                                            *)
(***************************************************************************)
\* The main view is rendered and no modal dialog covers it.
MainView == page = "ControlPanel" /\ ~showProgress /\ ~showPriceUpdateModal

handleSupplierSelect(supplierId) ==
    /\ MainView
    /\ selectedSuppliers' =
          IF supplierId \in selectedSuppliers
          THEN selectedSuppliers \ {supplierId}
          ELSE selectedSuppliers \cup {supplierId}
    /\ UNCHANGED <<page, orchVars, toast, showProgress, selectedMarketplaces,
                   auto_mode_enabled, progressType, showPriceUpdateModal,
                   sbVars, price, modal, kaspi>>

\* "Load prices": warn on an empty selection, else show a download run.
handleLoadPrices ==
    /\ MainView
    /\ IF selectedSuppliers = {}
       THEN /\ toast' = "Warning"
            /\ UNCHANGED <<runs, showProgress, progressType>>
       ELSE /\ CanMount
            /\ progressType' = "download"
            /\ showProgress' = TRUE
            /\ Mount("download", FilterSelected(Suppliers, selectedSuppliers), <<>>)
            /\ toast' = toast
    /\ UNCHANGED <<page, products, selectedSuppliers, selectedMarketplaces,
                   auto_mode_enabled, showPriceUpdateModal, sbVars, price, modal, kaspi>>

\* "Upload prices": warn on an empty supplier selection, else open the modal
\* in upload mode.
handleUploadPrices ==
    /\ MainView
    /\ IF selectedSuppliers = {}
       THEN /\ toast' = "Warning"
            /\ UNCHANGED <<progressType, showPriceUpdateModal>>
       ELSE /\ progressType' = "upload"
            /\ showPriceUpdateModal' = TRUE
            /\ toast' = toast
    /\ UNCHANGED <<page, orchVars, showProgress, selectedSuppliers,
                   selectedMarketplaces, auto_mode_enabled, sbVars, price, modal, kaspi>>

\* PriceUpdateModal onClose.
closePriceUpdateModal ==
    /\ page = "ControlPanel" /\ ~showProgress /\ showPriceUpdateModal
    /\ showPriceUpdateModal' = FALSE
    /\ UNCHANGED <<page, orchVars, toast, showProgress, selectedSuppliers,
                   selectedMarketplaces, auto_mode_enabled, progressType,
                   sbVars, price, modal, kaspi>>

\* PriceUpdateModal handleUpload with a non-empty choice of marketplaces (and
\* of products): onUpload = handleStartUpload shows an upload run, then the
\* modal closes.
handleStartUpload(selectedMarketplaceIds) ==
    /\ page = "ControlPanel" /\ ~showProgress /\ showPriceUpdateModal
    /\ progressType = "upload"
    /\ selectedMarketplaceIds # {}
    /\ CanMount
    /\ selectedMarketplaces' = selectedMarketplaceIds
    /\ progressType' = "upload"
    /\ showProgress' = TRUE
    /\ showPriceUpdateModal' = FALSE
    /\ Mount("upload", <<>>, FilterSelected(Marketplaces, selectedMarketplaceIds))
    /\ UNCHANGED <<page, products, toast, selectedSuppliers, auto_mode_enabled,
                   sbVars, price, modal, kaspi>>

(***************************************************************************)
(* SandboxPage                                                             *)
(***************************************************************************)
TestTypes == {"download", "upload", "marketplace_products"}

\* The suppliers / marketplaces props SandboxPage renders LoadingProgress with.
sandboxSuppliers(type) ==
    IF type = "download" THEN <<TestSupplier>> ELSE <<>>

sandboxMarketplaces(type, list, selected) ==
    IF type = "upload" THEN <<TestMarketplace>>
    ELSE IF type = "marketplace_products"
         THEN FilterSelected(list, {selected})
         ELSE <<>>

\* quotaExceeded off by one: a request at used = max still passes.
quotaExceeded_offByOne(requests) == requests.used > requests.max

\* quotaExceeded reading a counter that is never seen to have moved, as a
\* check separated from its increment would.
quotaExceeded_stale(requests) == 0 >= requests.max

\* The quota check at the top of runTest.
quotaExceeded(requests) == requests.used >= requests.max

\* consume counting a run twice.
consume_twice(requests) == [requests EXCEPT !.used = @ + 2]

\* The counter update of an accepted runTest.
consume(requests) == [requests EXCEPT !.used = @ + 1]

\* runTest: deny on an exhausted quota, reject marketplace_products without a
\* selection, else show the run and count it.
runTest(type) ==
    /\ page = "SandboxPage" /\ ~showProgress
    /\ IF quotaExceeded(testRequests)
       THEN /\ toast' = "Limit reached"
            /\ UNCHANGED <<runs, showProgress, testing, testType, testRequests>>
       ELSE IF type = "marketplace_products" /\ selectedMarketplace = ""
       THEN /\ toast' = "Select a marketplace"
            /\ UNCHANGED <<runs, showProgress, testing, testType, testRequests>>
       ELSE /\ CanMount
            /\ testType' = type
            /\ showProgress' = TRUE
            /\ testing' = TRUE
            /\ testRequests' = consume(testRequests)
            /\ Mount(type, sandboxSuppliers(type),
                     sandboxMarketplaces(type, marketplaces, selectedMarketplace))
            /\ toast' = toast
    /\ UNCHANGED <<page, products, cpVars, marketplaces, selectedMarketplace,
                   fetchPending, price, modal, kaspi>>

resetTestCounter ==
    /\ page = "SandboxPage" /\ ~showProgress
    /\ testRequests' = [testRequests EXCEPT !.used = 0]
    /\ toast' = "Success"
    /\ UNCHANGED <<page, orchVars, showProgress, cpVars, testing, testType,
                   marketplaces, selectedMarketplace, fetchPending, price, modal, kaspi>>

\* The marketplace Select of the main view.
setSelectedMarketplace(id) ==
    /\ page = "SandboxPage" /\ ~showProgress
    /\ id \in Ids(marketplaces)
    /\ selectedMarketplace' = id
    /\ UNCHANGED <<page, orchVars, toast, showProgress, cpVars, testing,
                   testType, testRequests, marketplaces, fetchPending, price, modal, kaspi>>

\* The effect of the shown LoadingProgress instance c runs again because the
\* host rendered again with new suppliers / marketplaces arrays: the steps are
\* reset and a further startProcess call starts on the same instance.
Reinitialise(c, type, suppliers, mkts) ==
    LET k == Len(runs) + 1
        call == [NewRun(type, suppliers, mkts, c) EXCEPT
                    !.steps = <<>>, !.mounted = FALSE]
        reset == [Append(runs, call) EXCEPT
                    ![c].steps = initialSteps(type, suppliers, mkts)]
    IN  runs' = loopHead(reset, k)

\* fetchMarketplaces returns. A failure is only logged. On success the list
\* is stored and the page renders again, the progress view included if shown.
fetchMarketplacesReturn(ok) ==
    /\ page = "SandboxPage" /\ fetchPending
    /\ fetchPending' = FALSE
    /\ IF ok
       THEN /\ marketplaces' = Marketplaces
            /\ IF \E c \in DOMAIN runs : runs[c].mounted
               THEN /\ CanMount
                    /\ \E c \in DOMAIN runs :
                          /\ runs[c].mounted
                          /\ Reinitialise(c, testType, sandboxSuppliers(testType),
                                sandboxMarketplaces(testType, Marketplaces,
                                                    selectedMarketplace))
               ELSE runs' = runs
       ELSE UNCHANGED <<marketplaces, runs>>
    /\ UNCHANGED <<page, products, toast, showProgress, cpVars, testing,
                   testType, testRequests, selectedMarketplace, price, modal, kaspi>>

(***************************************************************************)
(* PriceUpdateModal: pure helpers. A nullable number is <<>> (null) or <<n>>. *)
(***************************************************************************)
Null == <<>>

\* JavaScript !x for a nullable number.
falsy(x) == x = Null \/ x[1] = 0

calculateNewPrice(currentPrice, action, value) ==
    IF falsy(currentPrice) THEN Null
    ELSE CASE action = "multiply" -> <<currentPrice[1] * value>>
           [] action = "add" -> <<currentPrice[1] + value>>
           [] OTHER -> currentPrice

\* Largest price and largest absolute pricing value tried.
MaxPrice == 5
MaxValue == 3

PriceInputs == {Null} \cup {<<n>> : n \in 0..MaxPrice}
ActionInputs == {"multiply", "add", "divide"}
ValueInputs == (0 - MaxValue)..MaxValue

\* The price_status expression of applyGlobalPricing:
\* newPrice && current_price ? (compare) : 'unchanged'.
priceStatus(newPrice, currentPrice) ==
    IF ~falsy(newPrice) /\ ~falsy(currentPrice)
    THEN IF newPrice[1] > currentPrice[1] THEN "increased"
         ELSE IF newPrice[1] < currentPrice[1] THEN "decreased"
         ELSE "unchanged"
    ELSE "unchanged"

\* The update applyGlobalPricing builds for one product: a call of
\* calculateNewPrice, recorded with its arguments, and the status of the result.
Calculate(p, a, v) ==
    /\ page = "PriceUpdateModal"
    /\ price' = [called |-> TRUE, currentPrice |-> p, action |-> a, value |-> v,
                 result |-> calculateNewPrice(p, a, v),
                 status |-> priceStatus(calculateNewPrice(p, a, v), p)]
    /\ UNCHANGED <<page, orchVars, toast, showProgress, cpVars, sbVars, modal, kaspi>>

(***************************************************************************)
(* PriceUpdateModal: the product list. A nullable string is <<>> or <<s>>. *)
(***************************************************************************)
\* Most rows of the products table.
MaxRows == 3

\* The suppliers the modal is opened for (the supplierIds prop).
supplierIds == {"S1"}

\* A row of the products table as a supplier's loader leaves it.
SupplierRow(supplier, article, status, currentPrice) ==
    [id |-> 0, supplier_id |-> <<supplier>>, marketplace_id |-> Null,
     supplier_article |-> article, marketplace_article |-> Null,
     name_supplier |-> "X", name_marketplace |-> Null,
     price_status |-> status, current_price |-> currentPrice,
     new_price |-> Null, pricing_action |-> "multiply", pricing_value |-> 1]

\* A row of the products table that came from a marketplace.
MarketplaceRow(marketplace, article, name) ==
    [id |-> 0, supplier_id |-> Null, marketplace_id |-> marketplace,
     supplier_article |-> "K1", marketplace_article |-> article,
     name_supplier |-> "K", name_marketplace |-> name,
     price_status |-> <<"unchanged">>, current_price |-> Null,
     new_price |-> Null, pricing_action |-> "multiply", pricing_value |-> 1]

\* The rows tried: every status the column admits (null included), articles
\* that match, do not match and are empty, names present, empty and null.
TableRows ==
    { SupplierRow("S1", "A1", <<"increased">>, <<2>>),
      SupplierRow("S1", "A1", <<"unchanged">>, <<0>>),
      SupplierRow("S1", "A2", <<"decreased">>, Null),
      SupplierRow("S1", "A2", <<"missing">>, <<1>>),
      SupplierRow("S1", "", Null, <<1>>),
      SupplierRow("S2", "A1", <<"increased">>, <<1>>),
      MarketplaceRow(<<"M1">>, <<"A1">>, <<"Y">>),
      MarketplaceRow(<<"M1">>, <<"A1">>, <<"Z">>),
      MarketplaceRow(<<"M1">>, <<"A1">>, <<"">>),
      MarketplaceRow(<<"M1">>, <<"A1">>, Null),
      MarketplaceRow(<<"M1">>, <<"">>, <<"Y">>),
      MarketplaceRow(<<"M1">>, Null, <<"Y">>),
      MarketplaceRow(Null, <<"A1">>, <<"Y">>) }

\* JavaScript !x for a nullable string.
falsyStr(x) == x = Null \/ x[1] = ""

\* x || null for a nullable string.
orNull(x) == IF falsyStr(x) THEN Null ELSE x

\* The elements of list whose flag in keep is set, in the order of list.
Pick(list, keep) ==
    LET idx == SelectSeq([i \in DOMAIN list |-> i], LAMBDA i : keep[i])
    IN  [x \in DOMAIN idx |-> list[idx[x]]]

\* A sequence ordered by the ranks (in 0..4) of its elements, equal ranks
\* keeping their order (the result of the stable Array.prototype.sort with
\* comparator rank(a) - rank(b)); ranks[i] is the rank of list[i].
SortByRank(list, ranks) ==
    LET Group(r) == Pick(list, [i \in DOMAIN list |-> ranks[i] = r])
    IN  Group(0) \o Group(1) \o Group(2) \o Group(3) \o Group(4)

\* .order('price_status', { ascending: false }): text descending, nulls first.
orderRank(row) ==
    CASE row.price_status = Null -> 0
      [] row.price_status = <<"unchanged">> -> 1
      [] row.price_status = <<"missing">> -> 2
      [] row.price_status = <<"increased">> -> 3
      [] OTHER -> 4

\* The first query of fetchProducts.
selectSupplierProducts(table) ==
    LET selected == SelectSeq(table, LAMBDA r :
                        r.supplier_id # Null /\ r.supplier_id[1] \in supplierIds)
    IN  SortByRank(selected, [i \in DOMAIN selected |-> orderRank(selected[i])])

supplierArticles(supplierProducts) ==
    {supplierProducts[x].supplier_article : x \in DOMAIN supplierProducts}

\* The second query of fetchProducts.
selectMarketplaceProducts(table, articles) ==
    SelectSeq(table, LAMBDA r :
        /\ r.marketplace_article # Null
        /\ r.marketplace_article[1] \in articles
        /\ r.marketplace_id # Null)

\* articleMapping where the first row of an article is kept.
articleMapping_firstWins(marketplaceProducts, article) ==
    LET hits == {x \in DOMAIN marketplaceProducts :
                    /\ ~falsyStr(marketplaceProducts[x].marketplace_article)
                    /\ marketplaceProducts[x].marketplace_article[1] = article}
    IN  IF hits = {} THEN <<>>
        ELSE <<marketplaceProducts[CHOOSE x \in hits : \A y \in hits : x <= y]>>

\* articleMapping.get(article): the last returned row with that (truthy)
\* marketplace_article, <<>> if there is none.
articleMapping(marketplaceProducts, article) ==
    LET hits == {x \in DOMAIN marketplaceProducts :
                    /\ ~falsyStr(marketplaceProducts[x].marketplace_article)
                    /\ marketplaceProducts[x].marketplace_article[1] = article}
    IN  IF hits = {} THEN <<>>
        ELSE <<marketplaceProducts[CHOOSE x \in hits : \A y \in hits : y <= x]>>

\* enrich with the supplier's own name shown even when a marketplace name exists.
enrich_supplierName(supplierProduct, matched) ==
    ("display_name" :> supplierProduct.name_supplier) @@
    [supplierProduct EXCEPT
        !.name_marketplace = IF matched = <<>> THEN Null
                             ELSE orNull(matched[1].name_marketplace),
        !.marketplace_article = IF matched = <<>> THEN Null
                                ELSE orNull(matched[1].marketplace_article)]

\* The enriched record of one supplier product.
enrich(supplierProduct, matched) ==
    ("display_name" :>
        IF matched # <<>> /\ ~falsyStr(matched[1].name_marketplace)
        THEN matched[1].name_marketplace[1]
        ELSE supplierProduct.name_supplier) @@
    [supplierProduct EXCEPT
        !.name_marketplace = IF matched = <<>> THEN Null
                             ELSE orNull(matched[1].name_marketplace),
        !.marketplace_article = IF matched = <<>> THEN Null
                                ELSE orNull(matched[1].marketplace_article)]

\* enrichedProducts as an inner join: a supplier product that no marketplace
\* row matches is left out.
enrichedProducts_matchedOnly(supplierProducts, marketplaceProducts) ==
    LET all == [x \in DOMAIN supplierProducts |->
                   enrich(supplierProducts[x],
                          articleMapping(marketplaceProducts,
                                         supplierProducts[x].supplier_article))]
    IN  Pick(all, [x \in DOMAIN all |->
                      articleMapping(marketplaceProducts,
                                     supplierProducts[x].supplier_article) # <<>>])

\* supplierProducts.map(...): one enriched record per supplier product.
enrichedProducts(supplierProducts, marketplaceProducts) ==
    [x \in DOMAIN supplierProducts |->
        enrich(supplierProducts[x],
               articleMapping(marketplaceProducts,
                              supplierProducts[x].supplier_article))]

\* statusOrder with an unknown status ranked first.
statusOrder_unknownFirst(product) ==
    CASE product.price_status = <<"increased">> -> 1
      [] product.price_status = <<"decreased">> -> 2
      [] product.price_status = <<"unchanged">> -> 3
      [] product.price_status = <<"missing">> -> 4
      [] OTHER -> 0

\* statusOrder[status] ?? 4
statusOrder(product) ==
    CASE product.price_status = <<"increased">> -> 0
      [] product.price_status = <<"decreased">> -> 1
      [] product.price_status = <<"unchanged">> -> 2
      [] product.price_status = <<"missing">> -> 3
      [] OTHER -> 4

sortedProducts(list) ==
    SortByRank(list, [i \in DOMAIN list |-> statusOrder(list[i])])

\* A row enters the products table (a loader or a marketplace import wrote it).
insertRow(r) ==
    /\ page = "PriceUpdateModal"
    /\ Len(modal.table) < MaxRows
    /\ modal' = [modal EXCEPT
                    !.table = Append(@, [r EXCEPT !.id = Len(modal.table) + 1])]
    /\ UNCHANGED <<page, orchVars, toast, showProgress, cpVars, sbVars, price, kaspi>>

\* The host opens the modal; its effect calls fetchProducts, which sends the
\* first query.
openModal ==
    /\ page = "PriceUpdateModal"
    /\ ~modal.isOpen /\ modal.fetch = "idle"
    /\ modal' = [modal EXCEPT !.isOpen = TRUE, !.fetch = "suppliers",
                              !.loading = TRUE]
    /\ UNCHANGED <<page, orchVars, toast, showProgress, cpVars, sbVars, price, kaspi>>

\* onClose. The component stays mounted and keeps its list.
closeModal ==
    /\ page = "PriceUpdateModal"
    /\ modal.isOpen /\ modal.fetch = "idle"
    /\ modal' = [modal EXCEPT !.isOpen = FALSE]
    /\ UNCHANGED <<page, orchVars, toast, showProgress, cpVars, sbVars, price, kaspi>>

\* The first query returns: an error is reported and the list kept, no row
\* empties the list, otherwise the second query is sent.
supplierProductsReturn(ok) ==
    /\ page = "PriceUpdateModal"
    /\ modal.fetch = "suppliers"
    /\ LET rows == selectSupplierProducts(modal.table)
       IN  IF ~ok
           THEN /\ toast' = "Could not load the product list"
                /\ modal' = [modal EXCEPT !.fetch = "idle", !.loading = FALSE]
           ELSE IF rows = <<>>
           THEN /\ toast' = toast
                /\ modal' = [modal EXCEPT !.fetch = "idle", !.loading = FALSE,
                                !.products = <<>>,
                                !.source = [suppliers |-> <<>>, marketplaces |-> <<>>]]
           ELSE /\ toast' = toast
                /\ modal' = [modal EXCEPT !.fetch = "marketplaces",
                                          !.supplierProducts = rows]
    /\ UNCHANGED <<page, orchVars, showProgress, cpVars, sbVars, price, kaspi>>

\* The second query returns (an error is only logged and leaves nothing to
\* match with); the list is enriched, sorted and shown.
marketplaceProductsReturn(ok) ==
    /\ page = "PriceUpdateModal"
    /\ modal.fetch = "marketplaces"
    /\ LET rows == IF ok
                   THEN selectMarketplaceProducts(modal.table,
                            supplierArticles(modal.supplierProducts))
                   ELSE <<>>
       IN  modal' = [modal EXCEPT
                        !.fetch = "idle",
                        !.loading = FALSE,
                        !.products = sortedProducts(
                            enrichedProducts(modal.supplierProducts, rows)),
                        !.source = [suppliers |-> modal.supplierProducts,
                                    marketplaces |-> rows]]
    /\ UNCHANGED <<page, orchVars, toast, showProgress, cpVars, sbVars, price, kaspi>>

(***************************************************************************)
(* PriceUpdateModal: selection and applyGlobalPricing                      *)
(***************************************************************************)
\* Most applyGlobalPricing calls made in one behaviour.
MaxApplies == 1

\* Values typed into the pricing value input (parseFloat(...) || 0).
ApplyValues == {0 - 1}

\* applyGlobalPricing is not running. updates are the updates the running
\* call built and next is the one whose request is in flight; selection,
\* action and value are what the call captured when it was started; outcome
\* tells how the last call ended and thrown counts the updates that came
\* back with an error.
NoApply == [pc |-> "idle", updates |-> <<>>, next |-> 0, calls |-> 0,
            selection |-> <<>>, action |-> "multiply", value |-> 1,
            supplierProducts |-> <<>>, outcome |-> "none", thrown |-> 0]

\* The products table after an earlier download of S1 and S2: a product with
\* a price, one without, and one of a supplier the modal is not opened for.
ApplyTable ==
    << [SupplierRow("S1", "A1", <<"unchanged">>, <<1>>) EXCEPT !.id = 1],
       [SupplierRow("S1", "A2", <<"unchanged">>, Null) EXCEPT !.id = 2],
       [SupplierRow("S2", "A1", <<"unchanged">>, <<1>>) EXCEPT !.id = 3] >>

InList(list, id) == \E x \in DOMAIN list : list[x] = id

handleSelectAll ==
    /\ page = "PriceUpdateModal"
    /\ modal.isOpen
    /\ modal' = [modal EXCEPT !.selectedProducts =
                    [x \in DOMAIN modal.products |-> modal.products[x].id]]
    /\ UNCHANGED <<page, orchVars, toast, showProgress, cpVars, sbVars, price, kaspi>>

handleDeselectAll ==
    /\ page = "PriceUpdateModal"
    /\ modal.isOpen
    /\ modal' = [modal EXCEPT !.selectedProducts = <<>>]
    /\ UNCHANGED <<page, orchVars, toast, showProgress, cpVars, sbVars, price, kaspi>>

\* The checkbox of a listed product (the rows are rendered when not loading):
\* Set.add puts a new id last, Set.delete removes it.
handleProductSelect(productId, checked) ==
    /\ page = "PriceUpdateModal"
    /\ modal.isOpen /\ ~modal.loading
    /\ \E x \in DOMAIN modal.products : modal.products[x].id = productId
    /\ checked = ~InList(modal.selectedProducts, productId)
    /\ modal' = [modal EXCEPT !.selectedProducts =
                    IF checked THEN Append(@, productId)
                    ELSE SelectSeq(@, LAMBDA id : id # productId)]
    /\ UNCHANGED <<page, orchVars, toast, showProgress, cpVars, sbVars, price, kaspi>>

setGlobalPricingAction(action) ==
    /\ page = "PriceUpdateModal"
    /\ modal.isOpen
    /\ modal' = [modal EXCEPT !.globalPricingAction = action]
    /\ UNCHANGED <<page, orchVars, toast, showProgress, cpVars, sbVars, price, kaspi>>

setGlobalPricingValue(value) ==
    /\ page = "PriceUpdateModal"
    /\ modal.isOpen
    /\ modal' = [modal EXCEPT !.globalPricingValue = value]
    /\ UNCHANGED <<page, orchVars, toast, showProgress, cpVars, sbVars, price, kaspi>>

\* The update applyGlobalPricing builds for a selected product.
update(product, action, value) ==
    [id |-> product.id,
     new_price |-> calculateNewPrice(product.current_price, action, value),
     pricing_action |-> action,
     pricing_value |-> value,
     price_status |->
        priceStatus(calculateNewPrice(product.current_price, action, value),
                    product.current_price)]

\* Array.from(selectedProducts).map(...).filter(Boolean): one update per
\* selected id that is in the list, in the order of the selection.
updates(selection, list, action, value) ==
    LET found == Pick(selection, [x \in DOMAIN selection |->
                                     \E y \in DOMAIN list : list[y].id = selection[x]])
    IN  [x \in DOMAIN found |->
            update(list[CHOOSE y \in DOMAIN list : list[y].id = found[x]],
                   action, value)]

\* .update(u).eq('id', u.id) on the products table.
applyUpdate(table, u) ==
    [t \in DOMAIN table |->
        IF table[t].id = u.id
        THEN [table[t] EXCEPT !.new_price = u.new_price,
                              !.pricing_action = u.pricing_action,
                              !.pricing_value = u.pricing_value,
                              !.price_status = <<u.price_status>>]
        ELSE table[t]]

\* applyGlobalPricing where a failed update is skipped and the loop goes on.
afterUpdate_skipFailed(m, ok) ==
    LET u == m.apply.updates[m.apply.next]
        written == IF ok THEN [m EXCEPT !.table = applyUpdate(@, u)] ELSE m
    IN  IF m.apply.next < Len(m.apply.updates)
        THEN [written EXCEPT !.apply.next = @ + 1]
        ELSE [written EXCEPT !.apply.pc = "suppliers", !.loading = TRUE]

\* applyGlobalPricing after the awaited update returned: on an error the loop
\* is left (catch, finally); else the next update is sent, or, after the last
\* one, fetchProducts is called and sends its first query.
afterUpdate(m, ok) ==
    LET u == m.apply.updates[m.apply.next]
        written == [m EXCEPT !.table = applyUpdate(@, u)]
    IN  IF ~ok
        THEN [m EXCEPT !.apply.pc = "idle", !.apply.outcome = "failed",
                       !.loading = FALSE]
        ELSE IF m.apply.next < Len(m.apply.updates)
        THEN [written EXCEPT !.apply.next = @ + 1]
        ELSE [written EXCEPT !.apply.pc = "suppliers", !.loading = TRUE]

\* The "apply to selected" button (disabled while loading), up to the first
\* await: a warning for an empty selection, else the updates are built and the
\* first one is sent.
applyGlobalPricing ==
    /\ page = "PriceUpdateModal"
    /\ modal.isOpen /\ ~modal.loading
    /\ modal.apply.pc = "idle" /\ modal.apply.calls < MaxApplies
    /\ IF modal.selectedProducts = <<>>
       THEN /\ toast' = "Select products"
            /\ modal' = [modal EXCEPT !.apply.calls = @ + 1,
                                      !.apply.updates = <<>>,
                                      !.apply.selection = <<>>,
                                      !.apply.outcome = "warned"]
       ELSE LET built == updates(modal.selectedProducts, modal.products,
                                 modal.globalPricingAction, modal.globalPricingValue)
            IN  /\ toast' = IF built = <<>> THEN "Prices applied" ELSE toast
                /\ modal' = [modal EXCEPT
                                !.loading = TRUE,
                                !.apply = [pc |-> IF built = <<>> THEN "suppliers"
                                                  ELSE "update",
                                           updates |-> built, next |-> 1,
                                           calls |-> modal.apply.calls + 1,
                                           selection |-> modal.selectedProducts,
                                           action |-> modal.globalPricingAction,
                                           value |-> modal.globalPricingValue,
                                           supplierProducts |-> <<>>,
                                           outcome |-> "none",
                                           thrown |-> modal.apply.thrown]]
    /\ UNCHANGED <<page, orchVars, showProgress, cpVars, sbVars, price, kaspi>>

\* The update in flight returns.
updateReturn(ok) ==
    /\ page = "PriceUpdateModal"
    /\ modal.apply.pc = "update"
    /\ modal' = [afterUpdate(modal, ok) EXCEPT
                    !.apply.thrown = IF ok THEN @ ELSE @ + 1]
    /\ toast' = IF ~ok THEN "Could not apply prices"
                ELSE IF modal.apply.next = Len(modal.apply.updates)
                THEN "Prices applied" ELSE toast
    /\ UNCHANGED <<page, orchVars, showProgress, cpVars, sbVars, price, kaspi>>

\* applyGlobalPricing after its fetchProducts call returned: the selection
\* is cleared and loading ends.
afterRefetch(m) ==
    [m EXCEPT !.selectedProducts = <<>>, !.loading = FALSE,
              !.apply.pc = "idle", !.apply.outcome = "applied"]

\* The first query of the fetchProducts call made by applyGlobalPricing
\* returns (fetchProducts catches its own errors).
applySupplierProductsReturn(ok) ==
    /\ page = "PriceUpdateModal"
    /\ modal.apply.pc = "suppliers"
    /\ LET rows == selectSupplierProducts(modal.table)
       IN  IF ~ok
           THEN /\ toast' = "Could not load the product list"
                /\ modal' = afterRefetch(modal)
           ELSE IF rows = <<>>
           THEN /\ toast' = toast
                /\ modal' = afterRefetch([modal EXCEPT
                                !.products = <<>>,
                                !.source = [suppliers |-> <<>>, marketplaces |-> <<>>]])
           ELSE /\ toast' = toast
                /\ modal' = [modal EXCEPT !.apply.pc = "marketplaces",
                                          !.apply.supplierProducts = rows]
    /\ UNCHANGED <<page, orchVars, showProgress, cpVars, sbVars, price, kaspi>>

\* The second query of that fetchProducts call returns.
applyMarketplaceProductsReturn(ok) ==
    /\ page = "PriceUpdateModal"
    /\ modal.apply.pc = "marketplaces"
    /\ LET rows == IF ok
                   THEN selectMarketplaceProducts(modal.table,
                            supplierArticles(modal.apply.supplierProducts))
                   ELSE <<>>
       IN  modal' = afterRefetch([modal EXCEPT
                        !.products = sortedProducts(
                            enrichedProducts(modal.apply.supplierProducts, rows)),
                        !.source = [suppliers |-> modal.apply.supplierProducts,
                                    marketplaces |-> rows]])
    /\ UNCHANGED <<page, orchVars, toast, showProgress, cpVars, sbVars, price, kaspi>>

(***************************************************************************)
(* KaspiApiClient, KaspiProductForm and KaspiPage. A field that is missing *)
(* or of the wrong type is <<>>, a field of the right type is <<v>>.       *)
(***************************************************************************)
\* Most images of a product; most orders (or entries) in a response.
MaxImages == 2
MaxOrders == 2

\* Sequences over S of length at most n.
SeqUpTo(S, n) == UNION {[1..m -> S] : m \in 0..n}

\* Strings `new URL(x)` accepts, among the ones tried.
isUrl(x) == x \in {"https://cdn/1.jpg", "https://cdn/2.jpg"}

ImageInputs == {[url |-> "https://cdn/1.jpg"], [url |-> "1.jpg"], [url |-> ""]}

\* Attribute lists tried: none, a pair, a pair after one with a blank value,
\* and an attribute without its value.
AttributeInputs ==
    { <<>>,
      <<[code |-> <<"color">>, value |-> <<"red">>]>>,
      <<[code |-> <<"size">>, value |-> <<"">>],
        [code |-> <<"color">>, value |-> <<"red">>]>>,
      <<[code |-> <<"color">>, value |-> <<>>]>> }

TextFields == {"sku", "title", "brand", "category", "description"}

\* The products tried: at most one of the text fields is empty.
ProductInputs ==
    { [sku |-> t["sku"], title |-> t["title"], brand |-> t["brand"],
       category |-> t["category"], description |-> t["description"],
       images |-> imgs, attributes |-> attrs] :
         t \in {u \in [TextFields -> {"", "x"}] :
                   Cardinality({f \in TextFields : u[f] = ""}) <= 1},
         imgs \in SeqUpTo(ImageInputs, MaxImages),
         attrs \in AttributeInputs }

\* ProductSchema with no check of the image urls.
ProductSchema_anyUrl(product) ==
    /\ product.sku # "" /\ product.title # "" /\ product.brand # ""
    /\ product.category # "" /\ product.description # ""
    /\ \A x \in DOMAIN product.attributes :
          product.attributes[x].code # <<>> /\ product.attributes[x].value # <<>>

\* ProductSchema.parse succeeds.
ProductSchema(product) ==
    /\ product.sku # "" /\ product.title # "" /\ product.brand # ""
    /\ product.category # "" /\ product.description # ""
    /\ \A x \in DOMAIN product.images : isUrl(product.images[x].url)
    /\ \A x \in DOMAIN product.attributes :
          product.attributes[x].code # <<>> /\ product.attributes[x].value # <<>>

\* makeRequest up to its fetch: the request leaves.
makeRequest(call, endpoint, method, body) ==
    [kaspi EXCEPT !.pc = call, !.call = call, !.result = "pending",
                  !.response = <<>>,
                  !.request = <<[endpoint |-> endpoint, method |-> method,
                                 body |-> body]>>]

\* KaspiApiClient.addProduct up to its await: parse, then the POST.
addProduct(product) ==
    /\ page = "KaspiPage" /\ kaspi.pc = "idle"
    /\ IF ProductSchema(product)
       THEN kaspi' = [makeRequest("addProduct", "/goods", "POST", product)
                         EXCEPT !.arg = <<product>>]
       ELSE kaspi' = [kaspi EXCEPT !.call = "addProduct", !.arg = <<product>>,
                                   !.result = "ValidationError", !.request = <<>>]
    /\ toast' = (IF ProductSchema(product) THEN toast ELSE "Could not add the product")
    /\ UNCHANGED <<page, orchVars, showProgress, cpVars, sbVars, price, modal>>

\* string.trim() !== "" for a field of an attribute.
blank(x) == x = <<>> \/ x[1] = ""

\* KaspiProductForm.onSubmit of data the form's resolver (ProductSchema)
\* accepted: blank images and attributes are filtered out, then addProduct.
onSubmit(data) ==
    /\ ProductSchema(data)
    /\ addProduct([data EXCEPT
          !.images = SelectSeq(@, LAMBDA img : img.url # ""),
          !.attributes = SelectSeq(@, LAMBDA attr : ~blank(attr.value))])

\* The POST of addProduct returns.
addProductReturn(ok) ==
    /\ page = "KaspiPage" /\ kaspi.pc = "addProduct"
    /\ kaspi' = [kaspi EXCEPT !.pc = "idle",
                              !.result = IF ok THEN "ok" ELSE "ApiError"]
    /\ toast' = (IF ok THEN "Product added" ELSE "Could not add the product")
    /\ UNCHANGED <<page, orchVars, showProgress, cpVars, sbVars, price, modal>>

\* Entry lists as the marketplace may return them: empty, well-formed, and
\* with an entry that lacks its quantity, last or first.
EntryInputs ==
    { <<>>,
      <<[id |-> <<"E1">>, quantity |-> <<1>>, title |-> <<"Item 1">>]>>,
      <<[id |-> <<"E1">>, quantity |-> <<1>>, title |-> <<"Item 1">>],
        [id |-> <<"E2">>, quantity |-> <<2>>, title |-> <<"Item 2">>]>>,
      <<[id |-> <<"E1">>, quantity |-> <<1>>, title |-> <<"Item 1">>],
        [id |-> <<"E3">>, quantity |-> <<>>, title |-> <<"Item 3">>]>>,
      <<[id |-> <<"E3">>, quantity |-> <<>>, title |-> <<"Item 3">>],
        [id |-> <<"E1">>, quantity |-> <<1>>, title |-> <<"Item 1">>]>> }

\* Orders as the marketplace may return them: two well-formed ones and one
\* without its code.
OrderInputs ==
    {[id |-> <<"O1">>, code |-> <<"C1">>, status |-> <<"NEW">>,
      entries |-> <<[id |-> <<"E1">>, quantity |-> <<1>>, title |-> <<"Item 1">>]>>],
     [id |-> <<"O2">>, code |-> <<"C2">>, status |-> <<"ACCEPTED_BY_MERCHANT">>,
      entries |-> <<>>],
     [id |-> <<"O3">>, code |-> <<>>, status |-> <<"NEW">>, entries |-> <<>>]}

\* OrderEntrySchema.parse succeeds.
OrderEntrySchema(entry) ==
    entry.id # <<>> /\ entry.quantity # <<>> /\ entry.title # <<>>

\* OrderSchema.parse succeeds.
OrderSchema(order) ==
    /\ order.id # <<>> /\ order.code # <<>> /\ order.status # <<>>
    /\ \A x \in DOMAIN order.entries : OrderEntrySchema(order.entries[x])

\* data.map(parse) that drops what does not parse.
parseAll_skipInvalid(data, parses) ==
    [ok |-> TRUE, value |-> Pick(data, parses)]

\* data.map(x => Schema.parse(x)): the first element that does not parse
\* throws. parses[x] tells whether Schema.parse(data[x]) succeeds.
parseAll(data, parses) ==
    IF \A x \in DOMAIN data : parses[x]
    THEN [ok |-> TRUE, value |-> data]
    ELSE [ok |-> FALSE, value |-> <<>>]

StatusFilters == {"all", "NEW"}

\* KaspiPage.loadOrders up to its await: getOrders sends its request.
loadOrders ==
    /\ page = "KaspiPage" /\ kaspi.pc = "idle"
    /\ kaspi' = makeRequest("getOrders", "/orders?sort=-createdAt&pageSize=50",
                            "GET", <<>>)
    /\ UNCHANGED <<page, orchVars, toast, showProgress, cpVars, sbVars, price, modal>>

\* The status filter changes; the effect calls loadOrders.
setStatusFilter(filter) ==
    /\ page = "KaspiPage" /\ kaspi.pc = "idle"
    /\ filter # kaspi.statusFilter
    /\ kaspi' = [makeRequest("getOrders", "/orders?sort=-createdAt&pageSize=50",
                             "GET", <<>>) EXCEPT !.statusFilter = filter]
    /\ UNCHANGED <<page, orchVars, toast, showProgress, cpVars, sbVars, price, modal>>

\* getOrders returns into loadOrders: an HTTP error or an order that does not
\* parse throws into the catch (a toast); otherwise the orders are filtered
\* and shown.
getOrdersReturn(ok, data) ==
    /\ page = "KaspiPage" /\ kaspi.pc = "getOrders"
    /\ LET parsed == parseAll(data, [x \in DOMAIN data |-> OrderSchema(data[x])])
           filteredOrders ==
               IF kaspi.statusFilter # "all"
               THEN SelectSeq(parsed.value,
                              LAMBDA order : order.status[1] = kaspi.statusFilter)
               ELSE parsed.value
       IN  IF ~ok
           THEN /\ kaspi' = [kaspi EXCEPT !.pc = "idle", !.result = "ApiError",
                                          !.response = <<>>]
                /\ toast' = "Could not load the orders"
           ELSE IF ~parsed.ok
           THEN /\ kaspi' = [kaspi EXCEPT !.pc = "idle", !.response = data,
                                          !.result = "ValidationError"]
                /\ toast' = "Could not load the orders"
           ELSE /\ kaspi' = [kaspi EXCEPT !.pc = "idle", !.response = data,
                                          !.result = "ok",
                                          !.orders = filteredOrders]
                /\ toast' = toast
    /\ UNCHANGED <<page, orchVars, showProgress, cpVars, sbVars, price, modal>>

\* KaspiPage.handleViewOrder up to its await: getOrderEntries sends its request.
handleViewOrder(order) ==
    /\ page = "KaspiPage" /\ kaspi.pc = "idle"
    /\ kaspi' = [makeRequest("getOrderEntries", "/orders/id/entries", "GET", <<>>)
                    EXCEPT !.arg = <<order>>]
    /\ UNCHANGED <<page, orchVars, toast, showProgress, cpVars, sbVars, price, modal>>

\* getOrderEntries returns into handleViewOrder.
getOrderEntriesReturn(ok, data) ==
    /\ page = "KaspiPage" /\ kaspi.pc = "getOrderEntries"
    /\ LET parsed == parseAll(data, [x \in DOMAIN data |-> OrderEntrySchema(data[x])])
       IN  IF ~ok
           THEN /\ kaspi' = [kaspi EXCEPT !.pc = "idle", !.result = "ApiError",
                                          !.response = <<>>]
                /\ toast' = "Could not load the order"
           ELSE IF ~parsed.ok
           THEN /\ kaspi' = [kaspi EXCEPT !.pc = "idle", !.response = data,
                                          !.result = "ValidationError"]
                /\ toast' = "Could not load the order"
           ELSE /\ kaspi' = [kaspi EXCEPT !.pc = "idle", !.response = data,
                                          !.result = "ok",
                                          !.orderEntries = parsed.value,
                                          !.selectedOrder = kaspi.arg]
                /\ toast' = toast
    /\ UNCHANGED <<page, orchVars, showProgress, cpVars, sbVars, price, modal>>

(***************************************************************************)
(* KaspiOrderDetails: accepting an order. kaspi.remote is the status the   *)
(* marketplace holds for order O1, kaspi.details the state of the details  *)
(* view, kaspi.viewing the order whose entries handleOrderUpdated asked    *)
(* for again.                                                              *)
(***************************************************************************)
\* Most accept requests sent in one behaviour.
MaxAccepts == 2

\* The details view is not loading; requests counts the accept requests
\* sent and accepted those the marketplace answered with success.
NoDetails == [loading |-> FALSE, pc |-> "idle", requests |-> 0, accepted |-> 0]

\* The orders the marketplace returns: order O1 with its status there.
RemoteOrders ==
    <<[id |-> <<"O1">>, code |-> <<"C1">>, status |-> <<kaspi.remote>>,
       entries |-> <<>>]>>

\* The accept button of the details view is rendered and enabled.
AcceptEnabled ==
    /\ kaspi.selectedOrder # <<>>
    /\ kaspi.selectedOrder[1].status = <<"NEW">>
    /\ ~kaspi.details.loading

\* onBack: the list is shown again.
onBack ==
    /\ page = "KaspiPage" /\ kaspi.selectedOrder # <<>>
    /\ kaspi.pc = "idle" /\ kaspi.viewing = <<>> /\ kaspi.details.pc = "idle"
    /\ kaspi' = [kaspi EXCEPT !.selectedOrder = <<>>]
    /\ UNCHANGED <<page, orchVars, toast, showProgress, cpVars, sbVars, price, modal>>

\* handleAcceptOrder up to its await: acceptOrder posts the new status.
handleAcceptOrder ==
    /\ page = "KaspiPage" /\ AcceptEnabled
    /\ kaspi.pc = "idle" /\ kaspi.viewing = <<>>
    /\ kaspi.details.requests < MaxAccepts
    /\ kaspi' = [kaspi EXCEPT
                    !.details.loading = TRUE,
                    !.details.pc = "acceptOrder",
                    !.details.requests = @ + 1,
                    !.request = <<[endpoint |-> "/orders/id/status", method |-> "POST",
                                   body |-> [type |-> "orders",
                                             id |-> kaspi.selectedOrder[1].id,
                                             code |-> kaspi.selectedOrder[1].code,
                                             status |-> "ACCEPTED_BY_MERCHANT"]]>>]
    /\ UNCHANGED <<page, orchVars, toast, showProgress, cpVars, sbVars, price, modal>>

\* handleOrderUpdated: loadOrders is called, and handleViewOrder with the
\* order the details view already holds; both send their request.
handleOrderUpdated(k) ==
    [k EXCEPT !.pc = "getOrders", !.call = "getOrders", !.result = "pending",
              !.response = <<>>,
              !.viewing = k.selectedOrder]

\* acceptOrder returns: the marketplace took the order (its status there is
\* now ACCEPTED_BY_MERCHANT) and the page is told, or it refused and the
\* error is shown.
acceptOrderReturn(ok) ==
    /\ page = "KaspiPage" /\ kaspi.details.pc = "acceptOrder"
    /\ IF ok
       THEN /\ kaspi' = handleOrderUpdated(
                           [kaspi EXCEPT !.remote = "ACCEPTED_BY_MERCHANT",
                                         !.details.pc = "idle",
                                         !.details.loading = FALSE,
                                         !.details.accepted = @ + 1])
            /\ toast' = "Order accepted"
       ELSE /\ kaspi' = [kaspi EXCEPT !.details.pc = "idle",
                                      !.details.loading = FALSE]
            /\ toast' = "Could not accept the order"
    /\ UNCHANGED <<page, orchVars, showProgress, cpVars, sbVars, price, modal>>

\* getOrderEntries returns into the handleViewOrder call of
\* handleOrderUpdated: the entries are stored and the order passed in is
\* selected again.
viewAgainReturn(ok, data) ==
    /\ page = "KaspiPage" /\ kaspi.viewing # <<>>
    /\ LET parsed == parseAll(data, [x \in DOMAIN data |-> OrderEntrySchema(data[x])])
       IN  IF ok /\ parsed.ok
           THEN /\ kaspi' = [kaspi EXCEPT !.viewing = <<>>,
                                          !.orderEntries = parsed.value,
                                          !.selectedOrder = kaspi.viewing]
                /\ toast' = toast
           ELSE /\ kaspi' = [kaspi EXCEPT !.viewing = <<>>]
                /\ toast' = "Could not load the order"
    /\ UNCHANGED <<page, orchVars, showProgress, cpVars, sbVars, price, modal>>

(***************************************************************************)
(* Specifications                                                          *)
(***************************************************************************)
\* The modal and the marketplace client before they are used.
NoModal == [isOpen |-> FALSE, fetch |-> "idle", table |-> <<>>,
            supplierProducts |-> <<>>, products |-> <<>>,
            source |-> [suppliers |-> <<>>, marketplaces |-> <<>>],
            loading |-> FALSE, selectedProducts |-> <<>>,
            globalPricingAction |-> "multiply", globalPricingValue |-> 1,
            apply |-> NoApply]
NoKaspi == [pc |-> "idle", call |-> "none", arg |-> <<>>, result |-> "none",
            request |-> <<>>, response |-> <<>>, orders |-> <<>>,
            orderEntries |-> <<>>, selectedOrder |-> <<>>, statusFilter |-> "all",
            remote |-> "NEW", details |-> NoDetails, viewing |-> <<>>]

NoPrice == [called |-> FALSE, currentPrice |-> Null, action |-> "multiply",
            value |-> 0, result |-> Null, status |-> "unchanged"]

InitCommon ==
    /\ runs = <<>>
    /\ products = EmptyBag
    /\ toast = "none"
    /\ showProgress = FALSE
    /\ selectedSuppliers = {}
    /\ selectedMarketplaces = {}
    /\ progressType = "download"
    /\ showPriceUpdateModal = FALSE
    /\ testing = FALSE
    /\ testType = "download"
    /\ testRequests = [used |-> 0, max |-> MaxTestRequests]
    /\ marketplaces = <<>>
    /\ selectedMarketplace = ""
    /\ price = NoPrice
    /\ modal = NoModal
    /\ kaspi = NoKaspi

\* ControlPanel after fetchData has loaded the lists and the settings.
Init ==
    /\ InitCommon
    /\ page = "ControlPanel"
    /\ auto_mode_enabled \in BOOLEAN
    /\ fetchPending = FALSE

Next ==
    \/ \E s \in Ids(Suppliers) : handleSupplierSelect(s)
    \/ handleLoadPrices
    \/ handleUploadPrices
    \/ closePriceUpdateModal
    \/ \E ids \in SUBSET Ids(Marketplaces) : handleStartUpload(ids)
    \/ onCancel
    \/ \E k \in DOMAIN runs : DownloadTimer(k)
    \/ \E k \in DOMAIN runs : InsertStored(k)
    \/ \E k \in DOMAIN runs : InsertFailed(k)
    \/ \E k \in DOMAIN runs : UploadTick(k)

Spec == Init /\ [][Next]_vars

\* Call k goes on from the await it is suspended at: its timer fires, or the
\* insert it sent comes back, stored or refused.
Continue(k) ==
    /\ k \in DOMAIN runs
    /\ \/ DownloadTimer(k)
       \/ InsertStored(k)
       \/ InsertFailed(k)
       \/ UploadTick(k)

\* ControlPanel where every timer fires and every insert returns.
SpecLive == Spec /\ \A k \in 1..MaxRuns : WF_vars(Continue(k))

\* SandboxPage right after its first render: fetchMarketplaces is in flight.
InitSandbox ==
    /\ InitCommon
    /\ page = "SandboxPage"
    /\ auto_mode_enabled = FALSE
    /\ fetchPending = TRUE

NextSandbox ==
    \/ \E type \in TestTypes : runTest(type)
    \/ resetTestCounter
    \/ \E id \in Ids(Marketplaces) : setSelectedMarketplace(id)
    \/ \E ok \in BOOLEAN : fetchMarketplacesReturn(ok)
    \/ onCancel
    \/ \E k \in DOMAIN runs : DownloadTimer(k)
    \/ \E k \in DOMAIN runs : InsertStored(k)
    \/ \E k \in DOMAIN runs : InsertFailed(k)
    \/ \E k \in DOMAIN runs : UploadTick(k)

SpecSandbox == InitSandbox /\ [][NextSandbox]_vars

\* calculateNewPrice applied to every input of the bounded sets.
InitPrice ==
    /\ InitCommon
    /\ page = "PriceUpdateModal"
    /\ auto_mode_enabled = FALSE
    /\ fetchPending = FALSE

NextPrice ==
    \E p \in PriceInputs, a \in ActionInputs, v \in ValueInputs : Calculate(p, a, v)

SpecPrice == InitPrice /\ [][NextPrice]_vars

\* KaspiPage with the API token saved.
InitKaspi ==
    /\ InitCommon
    /\ page = "KaspiPage"
    /\ auto_mode_enabled = FALSE
    /\ fetchPending = FALSE

\* Products are added, through the form and through the client directly.
NextProduct ==
    \/ \E product \in ProductInputs : addProduct(product)
    \/ \E data \in ProductInputs : onSubmit(data)
    \/ \E ok \in BOOLEAN : addProductReturn(ok)

SpecProduct == InitKaspi /\ [][NextProduct]_vars

\* Orders are listed and viewed.
NextOrders ==
    \/ loadOrders
    \/ \E filter \in StatusFilters : setStatusFilter(filter)
    \/ \E ok \in BOOLEAN, data \in SeqUpTo(OrderInputs, MaxOrders) :
          getOrdersReturn(ok, data)
    \/ \E x \in DOMAIN kaspi.orders : handleViewOrder(kaspi.orders[x])
    \/ \E ok \in BOOLEAN, data \in EntryInputs :
          getOrderEntriesReturn(ok, data)

SpecOrders == InitKaspi /\ [][NextOrders]_vars

\* Order O1 is listed, viewed and accepted.
NextAccept ==
    \/ kaspi.selectedOrder = <<>> /\ loadOrders
    \/ \E ok \in BOOLEAN : getOrdersReturn(ok, RemoteOrders)
    \/ \E x \in DOMAIN kaspi.orders :
          kaspi.selectedOrder = <<>> /\ handleViewOrder(kaspi.orders[x])
    \/ \E ok \in BOOLEAN : getOrderEntriesReturn(ok, <<>>)
    \/ onBack
    \/ handleAcceptOrder
    \/ \E ok \in BOOLEAN : acceptOrderReturn(ok)
    \/ \E ok \in BOOLEAN : viewAgainReturn(ok, <<>>)

SpecAccept == InitKaspi /\ [][NextAccept]_vars

\* ControlPanel opened over a products table in which an earlier download of
\* supplier S1 has left its rows.
InitReload ==
    /\ runs = <<>>
    /\ products = SetToBag({productRow(Suppliers[1], items[y]) : y \in DOMAIN items})
    /\ toast = "none"
    /\ showProgress = FALSE
    /\ selectedSuppliers = {}
    /\ selectedMarketplaces = {}
    /\ progressType = "download"
    /\ showPriceUpdateModal = FALSE
    /\ testing = FALSE
    /\ testType = "download"
    /\ testRequests = [used |-> 0, max |-> MaxTestRequests]
    /\ marketplaces = <<>>
    /\ selectedMarketplace = ""
    /\ price = NoPrice
    /\ modal = NoModal
    /\ kaspi = NoKaspi
    /\ page = "ControlPanel"
    /\ auto_mode_enabled \in BOOLEAN
    /\ fetchPending = FALSE

SpecReload == InitReload /\ [][Next]_vars

\* The modal over a products table that fills while it is used.
NextModal ==
    \/ \E r \in TableRows : insertRow(r)
    \/ openModal
    \/ closeModal
    \/ \E ok \in BOOLEAN : supplierProductsReturn(ok)
    \/ \E ok \in BOOLEAN : marketplaceProductsReturn(ok)

SpecModal == InitPrice /\ [][NextModal]_vars

\* The modal over the table an earlier download left, closed.
InitApply ==
    /\ runs = <<>>
    /\ products = EmptyBag
    /\ toast = "none"
    /\ showProgress = FALSE
    /\ selectedSuppliers = {}
    /\ selectedMarketplaces = {}
    /\ progressType = "download"
    /\ showPriceUpdateModal = FALSE
    /\ testing = FALSE
    /\ testType = "download"
    /\ testRequests = [used |-> 0, max |-> MaxTestRequests]
    /\ marketplaces = <<>>
    /\ selectedMarketplace = ""
    /\ price = NoPrice
    /\ modal = [NoModal EXCEPT !.table = ApplyTable]
    /\ kaspi = NoKaspi
    /\ page = "PriceUpdateModal"
    /\ auto_mode_enabled = FALSE
    /\ fetchPending = FALSE

NextApply ==
    \/ openModal
    \/ closeModal
    \/ \E ok \in BOOLEAN : supplierProductsReturn(ok)
    \/ \E ok \in BOOLEAN : marketplaceProductsReturn(ok)
    \/ handleSelectAll
    \/ handleDeselectAll
    \/ \E id \in 1..Len(ApplyTable), checked \in BOOLEAN : handleProductSelect(id, checked)
    \/ \E action \in {"multiply", "add"} : setGlobalPricingAction(action)
    \/ \E value \in ApplyValues : setGlobalPricingValue(value)
    \/ applyGlobalPricing
    \/ \E ok \in BOOLEAN : updateReturn(ok)
    \/ \E ok \in BOOLEAN : applySupplierProductsReturn(ok)
    \/ \E ok \in BOOLEAN : applyMarketplaceProductsReturn(ok)

SpecApply == InitApply /\ [][NextApply]_vars

(***************************************************************************)
(* Properties of the orchestrator (checked under Spec)                     *)
(***************************************************************************)
\* The steps of the instance call k reports to.
StepsOf(k) == runs[runs[k].inst].steps

TerminalCount(st) == Cardinality({x \in DOMAIN st : st[x].status \in Terminal})

C4_CancelStopsScheduling ==
    [][\A k \in DOMAIN runs :
          runs[k].cancelledAt >= 0 =>
             /\ \A x \in DOMAIN StepsOf(k) :
                   StepsOf(k)[x].status = "pending" =>
                      runs'[runs[k].inst].steps[x].status = "pending"
             /\ (runs[k].i > runs[k].cancelledAt /\ runs'[k] # runs[k]) =>
                   products' = products]_vars

Accepted == ~showProgress /\ showProgress' /\ Len(runs') = Len(runs) + 1

\* C6: with used >= max no request is accepted: the progress view is not
\* shown, no startProcess call is made, no pending step starts and the counter
\* does not grow; and the denial itself (its toast) happens only with
\* used >= max and changes nothing else.
C6_QuotaDenial ==
    [][/\ testRequests.used >= testRequests.max =>
             /\ ~(~showProgress /\ showProgress')
             /\ testRequests'.used <= testRequests.used
             /\ ~showProgress =>
                   /\ Len(runs') = Len(runs)
                   /\ \A k \in DOMAIN runs : \A x \in DOMAIN runs[k].steps :
                         runs[k].steps[x].status = "pending" =>
                            runs'[k].steps[x].status = "pending"
       /\ (toast' = "Limit reached" /\ toast # "Limit reached") =>
             /\ testRequests.used >= testRequests.max
             /\ UNCHANGED <<runs, products, showProgress, testing, testType,
                            testRequests>>]_vars

\* The request at used = max - 1 was accepted and a later one was denied.
C6_Witness ==
    /\ toast = "Limit reached"
    /\ testRequests.used = testRequests.max
    /\ Len(runs) >= 1
    /\ ~showProgress

\* C7: used never exceeds max, whatever the order of requests, cancellations,
\* completions and resets: check and increment are one step of runTest.
C7_UsedWithinMax == testRequests.used <= testRequests.max

\* The last request the quota allows is running.
C7_Witness ==
    /\ testRequests.used = testRequests.max
    /\ showProgress
    /\ \E k \in DOMAIN runs : runs[k].mounted /\ runs[k].pc # "done"

\* C8: an accepted run raises used by exactly one at the moment it is
\* accepted, and nothing that happens to the run afterwards (its steps, their
\* failure, its cancellation or completion) touches the counter.
C8_OnePerRun ==
    [][/\ Accepted => testRequests'.used = testRequests.used + 1
       /\ (runs' # runs /\ ~Accepted) => testRequests' = testRequests]_vars

\* A counted run has finished with a failed step; the counter reads one.
C8_Witness ==
    /\ testRequests.used = 1
    /\ \E k \in DOMAIN runs : runs[k].pc = "done" /\ runs[k].thrown # {}

\* C9: max never changes, and used changes only by +1 when a run is accepted
\* or to 0 by resetTestCounter.
C9_CounterFrame ==
    [][/\ testRequests'.max = testRequests.max
       /\ testRequests'.used # testRequests.used =>
             \/ Accepted /\ testRequests'.used = testRequests.used + 1
             \/ /\ testRequests'.used = 0
                /\ toast' = "Success"
                /\ UNCHANGED <<runs, showProgress>>]_vars

\* The counter was reset after a run had been counted and cancelled.
C9_Witness ==
    /\ testRequests.used = 0
    /\ toast = "Success"
    /\ \E k \in DOMAIN runs : runs[k].cancelledAt >= 0

(***************************************************************************)
(* Properties of the pricing helpers (checked under SpecPrice)             *)
(***************************************************************************)
\* The evaluator as specified: only a null price gives null.
computeNewPrice(p, action, value) ==
    IF p = Null THEN Null
    ELSE CASE action = "multiply" -> <<p[1] * value>>
           [] action = "add" -> <<p[1] + value>>
           [] OTHER -> p

\* C10 (as claimed): calculateNewPrice agrees with the specified evaluator on
\* every input, a current price of 0 included.
C10_AgreesWithEvaluator ==
    price.called =>
        price.result = computeNewPrice(price.currentPrice, price.action, price.value)

\* The classifier as specified: strict comparison of two non-null prices,
\* unchanged when either is null.
classify(old, new) ==
    IF old = Null \/ new = Null THEN "unchanged"
    ELSE IF new[1] > old[1] THEN "increased"
    ELSE IF new[1] < old[1] THEN "decreased"
    ELSE "unchanged"

\* C11 (as claimed): the status applyGlobalPricing computes for a product is
\* the strict comparison of its current price with its new price whenever both
\* are non-null, a new price of 0 included, and unchanged when either is null.
C11_StatusMatchesComparison ==
    price.called => price.status = classify(price.currentPrice, price.result)

(***************************************************************************)
(* Properties of the product list (checked under SpecModal)                *)
(***************************************************************************)
\* The supplier row, as the first query returned it, behind a displayed record.
SupplierOf(e) ==
    modal.source.suppliers[CHOOSE x \in DOMAIN modal.source.suppliers :
                              modal.source.suppliers[x].id = e.id]

\* The returned marketplace rows whose marketplace_article is the article.
MatchesOf(article) ==
    {y \in DOMAIN modal.source.marketplaces :
        modal.source.marketplaces[y].marketplace_article = <<article>>}

\* C12 (as claimed): every displayed record whose supplier article equals the
\* marketplace_article of some returned marketplace row carries that row's
\* marketplace_article and name_marketplace, and shows the row's name when it
\* is present and non-empty, else the supplier's name; a record without such a
\* row shows the supplier's name and has both fields null.
C12_JoinAsClaimed ==
    \A x \in DOMAIN modal.products :
        LET e == modal.products[x]
            s == SupplierOf(e)
            M == MatchesOf(s.supplier_article)
        IN  IF M # {}
            THEN \E y \in M :
                    LET m == modal.source.marketplaces[y]
                    IN  /\ e.marketplace_article = m.marketplace_article
                        /\ e.name_marketplace = m.name_marketplace
                        /\ e.display_name =
                              IF m.name_marketplace # Null /\ m.name_marketplace[1] # ""
                              THEN m.name_marketplace[1] ELSE s.name_supplier
            ELSE /\ e.display_name = s.name_supplier
                 /\ e.marketplace_article = Null
                 /\ e.name_marketplace = Null

\* C12 (amended): the same join, where only a non-empty article matches and an
\* empty marketplace name is carried as null.
C12_Join ==
    \A x \in DOMAIN modal.products :
        LET e == modal.products[x]
            s == SupplierOf(e)
            M == IF s.supplier_article = "" THEN {}
                 ELSE MatchesOf(s.supplier_article)
        IN  IF M # {}
            THEN \E y \in M :
                    LET m == modal.source.marketplaces[y]
                        named == m.name_marketplace # Null /\ m.name_marketplace[1] # ""
                    IN  /\ e.marketplace_article = m.marketplace_article
                        /\ e.name_marketplace =
                              IF named THEN m.name_marketplace ELSE Null
                        /\ e.display_name =
                              IF named THEN m.name_marketplace[1] ELSE s.name_supplier
            ELSE /\ e.display_name = s.name_supplier
                 /\ e.marketplace_article = Null
                 /\ e.name_marketplace = Null

\* The list shows a product named by its marketplace row next to one that no
\* marketplace row matches.
C12_Witness ==
    /\ modal.isOpen /\ modal.fetch = "idle"
    /\ \E x, y \in DOMAIN modal.products :
          /\ modal.products[x].supplier_article = "A1"
          /\ modal.products[x].marketplace_article = <<"A1">>
          /\ modal.products[x].display_name = "Y"
          /\ modal.products[y].supplier_article = "A2"
          /\ modal.products[y].marketplace_article = Null
          /\ modal.products[y].display_name = "X"

\* The rank the display order is specified by.
displayRank(status) ==
    CASE status = <<"increased">> -> 0
      [] status = <<"decreased">> -> 1
      [] status = <<"unchanged">> -> 2
      [] status = <<"missing">> -> 3
      [] OTHER -> 4

\* C13: the displayed list is ordered by status rank, increased first and a
\* null or unrecognised status last: adjacent rows never go down in rank.
C13_ListOrdered ==
    \A x \in DOMAIN modal.products :
        x < Len(modal.products) =>
            displayRank(modal.products[x].price_status)
                <= displayRank(modal.products[x + 1].price_status)

\* Three rows are shown in an order other than the one the query returned:
\* the increased one first, the one without a status last.
C13_Witness ==
    /\ modal.isOpen /\ modal.fetch = "idle"
    /\ Len(modal.products) = 3
    /\ modal.products[1].price_status = <<"increased">>
    /\ modal.products[3].price_status = Null
    /\ modal.source.suppliers[1].price_status = Null

C15_OneRowPerArticle ==
    \A r1, r2 \in BagToSet(products) :
        (r1.supplier_id = r2.supplier_id /\ r1.supplier_article = r2.supplier_article)
            => (r1 = r2 /\ CopiesIn(r1, products) = 1)

(***************************************************************************)
(* Properties of the marketplace client (SpecProduct, SpecOrders)          *)
(***************************************************************************)
\* A payload the contract calls malformed: an empty text field, an image url
\* that is not a URL, or an attribute that lacks its code or its value.
Malformed(product) ==
    \/ product.sku = "" \/ product.title = "" \/ product.brand = ""
    \/ product.category = "" \/ product.description = ""
    \/ \E x \in DOMAIN product.images : ~isUrl(product.images[x].url)
    \/ \E x \in DOMAIN product.attributes :
          product.attributes[x].code = <<>> \/ product.attributes[x].value = <<>>

\* C16: addProduct called with a malformed payload is rejected with a
\* validation error and has issued no HTTP request.
C16_MalformedNotSent ==
    (kaspi.call = "addProduct" /\ Malformed(kaspi.arg[1])) =>
        /\ kaspi.result = "ValidationError"
        /\ kaspi.request = <<>>
        /\ kaspi.pc = "idle"

\* A product whose only fault is an image url that is not a URL was rejected.
C16_Witness ==
    /\ kaspi.call = "addProduct"
    /\ kaspi.result = "ValidationError" /\ kaspi.request = <<>>
    /\ kaspi.arg[1].sku # "" /\ kaspi.arg[1].title # "" /\ kaspi.arg[1].brand # ""
    /\ kaspi.arg[1].category # "" /\ kaspi.arg[1].description # ""
    /\ kaspi.arg[1].attributes = <<>>
    /\ Len(kaspi.arg[1].images) = 2
    /\ kaspi.arg[1].images[1].url = "https://cdn/1.jpg"
    /\ kaspi.arg[1].images[2].url = "1.jpg"

\* C17 (as claimed): every product payload sent to the marketplace carries at
\* least one image.
C17_ImageRequired ==
    (kaspi.request # <<>> /\ kaspi.request[1].endpoint = "/goods") =>
        Len(kaspi.request[1].body.images) >= 1

\* The response the last finished fetch received holds an element that does
\* not match the fixed shape.
ShapeMismatch ==
    \E x \in DOMAIN kaspi'.response :
        IF kaspi.pc = "getOrders"
        THEN ~OrderSchema(kaspi'.response[x])
        ELSE ~OrderEntrySchema(kaspi'.response[x])

\* C18: inbound validation is all-or-nothing. A getOrders or getOrderEntries
\* whose response holds one element that does not match the shape fails with
\* a validation error as a whole, and the orders, the entries and the selected
\* order on display stay as they were.
C18_AllOrNothing ==
    [][(/\ kaspi.pc \in {"getOrders", "getOrderEntries"}
        /\ kaspi'.pc = "idle"
        /\ ShapeMismatch)
       => /\ kaspi'.result = "ValidationError"
          /\ kaspi'.orders = kaspi.orders
          /\ kaspi'.orderEntries = kaspi.orderEntries
          /\ kaspi'.selectedOrder = kaspi.selectedOrder]_vars

\* A response with a well-formed order followed by one without its code was
\* refused while an earlier list stays on display.
C18_Witness ==
    /\ kaspi.call = "getOrders" /\ kaspi.pc = "idle"
    /\ kaspi.result = "ValidationError"
    /\ Len(kaspi.response) = 2
    /\ OrderSchema(kaspi.response[1]) /\ ~OrderSchema(kaspi.response[2])
    /\ Len(kaspi.orders) = 1
    /\ kaspi.orders[1] # kaspi.response[1]

(***************************************************************************)
(* Properties of the steps of a run (checked under Spec)                   *)
(***************************************************************************)
\* The entities ControlPanel hands to the run it shows in this step.
TargetsShown ==
    IF progressType' = "download"
    THEN SelectSeq(Suppliers, LAMBDA e : e.id \in selectedSuppliers')
    ELSE SelectSeq(Marketplaces, LAMBDA e : e.id \in selectedMarketplaces')

InFlight == {k \in DOMAIN runs : runs[k].pc \in {"timer", "insert"}}

\* C20: under every sequence of start, cancel, restart and prop-change
\* re-initialisation, at most one step is in flight, and at most one call
\* is inside loadSupplierData, the writer of the product store.
C20_OneStepInFlight ==
    /\ Cardinality(InFlight) <= 1
    /\ Cardinality({k \in InFlight : runs[k].type = "download"}) <= 1

(***************************************************************************)
(* Failures inside a download step (checked under Spec)                    *)
(***************************************************************************)
\* C21: when the insert of item j of a download step fails, that step is
\* marked error with the message built from the failure, the store keeps the
\* rows written before (nothing is rolled back, nothing further is written in
\* that transition), and the call goes on to the next supplier's step; every
\* row a call writes belongs to its current step, which lies behind every
\* step of the call that failed, so no item after j of a failed step is
\* ever written.
C21_ItemFailure ==
    [][/\ \A k \in DOMAIN runs :
             runs'[k].thrown # runs[k].thrown =>
                LET r == runs[k]
                    x == r.i + 1
                    after == runs'[r.inst].steps
                IN  /\ after[x].status = "error"
                    /\ after[x].error \in
                          {<<"Failed to add item " \o items[r.j + 1].name \o ": " \o m>> :
                              m \in DbMessages}
                    /\ products' = products
                    /\ runs'[k].i = r.i + 1
                    /\ (x < r.n => /\ after[x + 1].status = "processing"
                                   /\ runs'[k].pc = "timer")
                    /\ (x = r.n => runs'[k].pc = "done")
       /\ products' # products =>
             \E k \in DOMAIN runs :
                /\ runs[k].pc = "insert"
                /\ \A t \in runs[k].thrown : t < runs[k].i
                /\ runs'[k].thrown = runs[k].thrown
                /\ products' = products (+)
                      SetToBag({[supplier_id |-> runs[runs[k].inst].steps[runs[k].i + 1].id,
                                 supplier_article |-> items[runs[k].j + 1].article,
                                 name_supplier |-> items[runs[k].j + 1].name,
                                 current_price |-> items[runs[k].j + 1].price,
                                 pricing_action |-> "multiply",
                                 pricing_value |-> 1]})]_vars

\* Suppliers S1 and S2 were loaded: the second item of S1 failed after its
\* first was stored, and both items of S2 are in the store.
C21_Witness ==
    \E k \in DOMAIN runs :
        /\ runs[k].type = "download" /\ runs[k].n = 2
        /\ runs[k].pc = "done" /\ runs[k].thrown = {0}
        /\ runs[k].steps[1].id = Suppliers[1]
        /\ runs[k].steps[1].status = "error"
        /\ runs[k].steps[2].status = "completed"
        /\ \E row \in BagToSet(products) :
              row.supplier_id = Suppliers[1] /\ row.supplier_article = items[1].article
        /\ ~\E row \in BagToSet(products) :
              row.supplier_id = Suppliers[1] /\ row.supplier_article = items[2].article
        /\ \E row \in BagToSet(products) :
              row.supplier_id = Suppliers[2] /\ row.supplier_article = items[2].article

\* The number of items of the supplier of a step that are in the store.
StoredItems(id) ==
    Cardinality({y \in DOMAIN items : BagIn(productRow(id, items[y]), products)})

\* C22 (as claimed): while a download step is processing, its progress lies
\* in 0..100 and reads (k / n) * 100 exactly when k of its n items have been
\* stored, so that it reads 100 only when all n items are in the store.
C22_ProgressCountsStored ==
    \A k \in DOMAIN runs :
        (runs[k].type = "download" /\ runs[k].pc \in {"timer", "insert"}) =>
            LET st == StepsOf(k)[runs[k].i + 1]
                stored == StoredItems(st.id)
            IN  /\ st.progress[1] >= 0
                /\ st.progress[1] <= 100 * st.progress[2]
                /\ st.progress = Percent(stored, Len(items))
                /\ (st.progress = <<100, 1>> => stored = Len(items))

(***************************************************************************)
(* Properties of the reconciliation (checked under SpecModal)              *)
(***************************************************************************)
\* C24: the displayed list holds exactly one record for every supplier
\* product the first query returned, with the same id and the supplier's own
\* fields, however many marketplace rows match it; and the rows read by the
\* two queries are still in the table as they were read.
C24_IdentityPreserved ==
    /\ Len(modal.products) = Len(modal.source.suppliers)
    /\ \A x \in DOMAIN modal.source.suppliers :
          LET s == modal.source.suppliers[x]
              E == {y \in DOMAIN modal.products : modal.products[y].id = s.id}
          IN  /\ Cardinality(E) = 1
              /\ \A y \in E :
                    /\ modal.products[y].supplier_id = s.supplier_id
                    /\ modal.products[y].supplier_article = s.supplier_article
                    /\ modal.products[y].name_supplier = s.name_supplier
                    /\ modal.products[y].price_status = s.price_status
                    /\ modal.products[y].current_price = s.current_price
              /\ \E t \in DOMAIN modal.table : modal.table[t] = s
    /\ \A x \in DOMAIN modal.source.marketplaces :
          \E t \in DOMAIN modal.table : modal.table[t] = modal.source.marketplaces[x]

\* One supplier product is shown once although two marketplace rows returned
\* by the second query match it.
C24_Witness ==
    /\ modal.fetch = "idle" /\ Len(modal.products) = 1
    /\ Len(modal.source.marketplaces) = 2
    /\ modal.products[1].marketplace_article # Null
    /\ modal.products[1].id = modal.source.suppliers[1].id

\* C25: a displayed product is enriched from the last of the returned
\* marketplace rows that carry its article, and only rows with a
\* marketplace_id and a non-empty marketplace_article count: with no such row
\* the product has no marketplace article and no marketplace name.
C25_LastWriteWins ==
    \A x \in DOMAIN modal.products :
        LET e == modal.products[x]
            rows == modal.source.marketplaces
            H == {y \in DOMAIN rows :
                    /\ rows[y].marketplace_id # Null
                    /\ rows[y].marketplace_article # Null
                    /\ rows[y].marketplace_article[1] # ""
                    /\ rows[y].marketplace_article[1] = e.supplier_article}
        IN  IF H = {}
            THEN e.marketplace_article = Null /\ e.name_marketplace = Null
            ELSE LET last == rows[CHOOSE y \in H : \A z \in H : z <= y]
                     named == last.name_marketplace # Null /\ last.name_marketplace[1] # ""
                 IN  /\ e.marketplace_article = last.marketplace_article
                     /\ e.name_marketplace = IF named THEN last.name_marketplace ELSE Null
                     /\ e.display_name = IF named THEN last.name_marketplace[1]
                                         ELSE e.name_supplier

\* Two marketplace rows with article A1 were returned, named Y then Z: the
\* product shows Z.
C25_Witness ==
    /\ modal.fetch = "idle" /\ Len(modal.source.marketplaces) = 2
    /\ modal.source.marketplaces[1].marketplace_article = <<"A1">>
    /\ modal.source.marketplaces[1].name_marketplace = <<"Y">>
    /\ modal.source.marketplaces[2].marketplace_article = <<"A1">>
    /\ modal.source.marketplaces[2].name_marketplace = <<"Z">>
    /\ \E x \in DOMAIN modal.products :
          modal.products[x].supplier_article = "A1" /\ modal.products[x].display_name = "Z"

(***************************************************************************)
(* Properties of applyGlobalPricing (checked under SpecApply)              *)
(***************************************************************************)
\* C23 (as claimed): while a pricing rule is being applied no unselected row
\* and no current_price changes, and when its last update has been written
\* every selected product carries new_price = calculateNewPrice(current_price,
\* action, value), the applied action and value, and the status that is the
\* classification of its current and new price.
C23_AppliedAsClaimed ==
    [][modal.apply.pc = "update" =>
          /\ Len(modal'.table) = Len(modal.table)
          /\ \A t \in DOMAIN modal.table :
                /\ modal'.table[t].current_price = modal.table[t].current_price
                /\ ~InList(modal.apply.selection, modal.table[t].id) =>
                      modal'.table[t] = modal.table[t]
          /\ modal'.apply.pc = "suppliers" =>
                \A t \in DOMAIN modal'.table :
                   LET row == modal'.table[t]
                   IN  InList(modal.apply.selection, row.id) =>
                          /\ row.new_price =
                                calculateNewPrice(row.current_price,
                                                  modal.apply.action, modal.apply.value)
                          /\ row.pricing_action = modal.apply.action
                          /\ row.pricing_value = modal.apply.value
                          /\ row.price_status =
                                <<classify(row.current_price, row.new_price)>>]_vars

\* The rows of the table that a step changes.
ChangedRows == {t \in DOMAIN modal.table : modal'.table[t] # modal.table[t]}

\* C30: applying a pricing rule writes one product at a time, in the order
\* of the selection. A step changes at most one row, only for the update in
\* flight, whose place in the updates is its product's place in the selection;
\* when an update fails nothing is written, the call ends without asking for
\* the list again, and the selection and the list stay as they are; a call
\* with an empty selection writes nothing and sends nothing; and whenever a
\* call ends, loading is false.
C30_SequentialNotAtomic ==
    [][/\ Len(modal'.table) = Len(modal.table)
       /\ Cardinality(ChangedRows) <= 1
       /\ ChangedRows # {} =>
             /\ modal.apply.pc = "update"
             /\ \A t \in ChangedRows :
                   modal.table[t].id = modal.apply.selection[modal.apply.next]
             /\ modal'.apply.selection = modal.apply.selection
             /\ \/ modal'.apply.pc = "update" /\ modal'.apply.next = modal.apply.next + 1
                \/ modal'.apply.pc = "suppliers"
                      /\ modal.apply.next = Len(modal.apply.selection)
       /\ modal'.apply.thrown > modal.apply.thrown =>
             /\ ChangedRows = {}
             /\ modal'.apply.pc = "idle"
             /\ modal'.apply.next = modal.apply.next
             /\ modal'.selectedProducts = modal.selectedProducts
             /\ modal'.products = modal.products
       /\ (modal'.apply.calls > modal.apply.calls /\ modal.selectedProducts = <<>>) =>
             /\ modal'.apply.pc = "idle"
             /\ ~modal'.loading
       /\ (modal'.apply.calls > modal.apply.calls /\ modal.selectedProducts # <<>>) =>
             /\ modal'.apply.pc = "update"
             /\ modal'.apply.next = 1
             /\ modal'.apply.selection = modal.selectedProducts
       /\ (modal.apply.pc # "idle" /\ modal'.apply.pc = "idle") => ~modal'.loading]_vars

\* Products 2 and 1 were selected in that order: the update of 2 is in the
\* table, the update of 1 failed, the selection is still there and loading
\* is over.
C30_Witness ==
    /\ modal.apply.outcome = "failed"
    /\ modal.apply.selection = <<2, 1>> /\ modal.apply.next = 2
    /\ modal.apply.value = 0 - 1
    /\ modal.table[2].id = 2 /\ modal.table[2].pricing_value = 0 - 1
    /\ modal.table[1].id = 1 /\ modal.table[1].pricing_value = 1
    /\ modal.selectedProducts = <<2, 1>>
    /\ ~modal.loading

(***************************************************************************)
(* Properties of the order details view (checked under SpecAccept)         *)
(***************************************************************************)
\* C26 (as claimed): an accept request is sent only for an order whose
\* status is NEW, at the marketplace as in the view, and once the marketplace
\* has accepted the order the details view offers no further accept for it.
C26_AcceptOnlyNew ==
    [][/\ kaspi'.details.requests > kaspi.details.requests =>
             /\ kaspi.selectedOrder[1].status = <<"NEW">>
             /\ kaspi.remote = "NEW"
       /\ (kaspi'.details.accepted > 0 /\ kaspi'.pc = "idle" /\ kaspi'.viewing = <<>>
              /\ kaspi'.selectedOrder # <<>>) =>
             ~(kaspi'.selectedOrder[1].status = <<"NEW">> /\ ~kaspi'.details.loading)]_vars

(***************************************************************************)
(* Termination (checked under SpecLive)                                    *)
(***************************************************************************)
\* C27: every startProcess call that was started leaves its loop: it reaches
\* the point where isCompleted is set and onComplete is called, with every
\* one of its steps completed or in error, whichever of them failed.
C27_RunTerminates ==
    \A k \in 1..MaxRuns :
        (k \in DOMAIN runs) ~>
            (/\ k \in DOMAIN runs
             /\ runs[k].pc = "done"
             /\ runs[runs[k].inst].isCompleted
             /\ \A x \in DOMAIN StepsOf(k) : StepsOf(k)[x].status \in Terminal)

\* A download of two suppliers has finished although both steps failed.
C27_Witness ==
    \E k \in DOMAIN runs :
        /\ runs[k].type = "download" /\ runs[k].n = 2
        /\ runs[k].pc = "done" /\ runs[k].thrown = {0, 1}
        /\ runs[k].isCompleted

(***************************************************************************)
(* Cancelled runs                                                          *)
(***************************************************************************)
\* Call k leaves its loop in this step, its view having been cancelled.
CancelledCallFinishes(k) ==
    /\ k \in DOMAIN runs
    /\ runs[k].cancelledAt >= 0
    /\ runs[k].pc # "done"
    /\ runs'[k].pc = "done"

\* C28: a call whose view the user cancelled delivers nothing to the page
\* when it later leaves its loop: no toast, the price-review modal is not
\* opened, and the progress view (of whatever run is shown by then) stays
\* as it is.
C28_CancelledRunSilent ==
    [][\A k \in 1..(MaxRuns + MaxTestRuns) :
          CancelledCallFinishes(k) =>
             /\ toast' = toast
             /\ showPriceUpdateModal' = showPriceUpdateModal
             /\ showProgress' = showProgress]_vars

(***************************************************************************)
(* LoadingProgress on its own: rendered with any lists of targets          *)
(*                                                                         *)
(* ControlPanel and SandboxPage never pass an empty list (handleLoadPrices *)
(* and handleUpload warn and return, runTest rejects a missing selection). *)
(* The props of the component allow it, both lists defaulting to []. Here  *)
(* the component is rendered with every sublist of the known targets, the  *)
(* empty one included, by a host with ControlPanel's callbacks.            *)
(***************************************************************************)
\* The sublists of list, in list order.
TargetChoices(list) == {FilterSelected(list, S) : S \in SUBSET Ids(list)}

\* A host shows LoadingProgress with the given props. The effect builds the
\* steps and calls startProcess; with no steps the for loop is not entered
\* and the call sets isCompleted and calls onComplete before any await.
renderLoadingProgress(type, suppliers, mkts) ==
    LET k == Len(runs) + 1
        rs == loopHead(Append(runs, NewRun(type, suppliers, mkts, k)), k)
    IN  /\ MainView
        /\ CanMount
        /\ progressType' = type
        /\ IF rs[k].pc = "done"
           THEN /\ runs' = Unmount(rs)
                /\ onComplete(type)
           ELSE /\ runs' = rs
                /\ showProgress' = TRUE
                /\ UNCHANGED <<toast, showPriceUpdateModal, testing>>
        /\ UNCHANGED <<page, products, selectedSuppliers, selectedMarketplaces,
                       auto_mode_enabled, testType, testRequests, marketplaces,
                       selectedMarketplace, fetchPending, price, modal, kaspi>>

NextComponent ==
    \/ \E suppliers \in TargetChoices(Suppliers) :
          renderLoadingProgress("download", suppliers, <<>>)
    \/ \E mkts \in TargetChoices(Marketplaces) :
          renderLoadingProgress("upload", <<>>, mkts)
    \/ closePriceUpdateModal
    \/ onCancel
    \/ \E k \in DOMAIN runs : DownloadTimer(k)
    \/ \E k \in DOMAIN runs : InsertStored(k)
    \/ \E k \in DOMAIN runs : InsertFailed(k)
    \/ \E k \in DOMAIN runs : UploadTick(k)

SpecComponent == Init /\ [][NextComponent]_vars

\* C29: a run over no targets has no step and is never suspended at an await
\* (so it sends no insert and writes nothing), it has called onComplete
\* exactly once, and its overall progress is 0: neither 100 nor 0/0. The
\* step that starts it leaves the store as it was and delivers the
\* completion to the host.
C29_EmptyRun ==
    [][\A k \in 1..(MaxRuns + 1) :
          (k \in DOMAIN runs' /\ runs'[k].n = 0) =>
             /\ runs'[k].steps = <<>>
             /\ runs'[k].pc = "done"
             /\ runs'[k].completeCalls = 1
             /\ runs'[k].isCompleted
             /\ runs'[k].overallProgress = <<0, 1>>
             /\ k \notin DOMAIN runs =>
                   /\ products' = products
                   /\ toast' = "Operation finished"
                   /\ ~showProgress']_vars

\* An empty download has been started and has signalled its completion.
C29_Witness ==
    \E k \in DOMAIN runs :
        /\ runs[k].n = 0 /\ runs[k].type = "download"
        /\ runs[k].completeCalls = 1
        /\ toast = "Operation finished"

====
